---- MODULE Spec2Model ----
(***************************************************************************)
(* Model of the Tour API client of lib/api/tour-api.ts: the error          *)
(* classifier, the retrying fetcher, the response normalizer and the       *)
(* client operations built from them.                                      *)
(*                                                                         *)
(* A JavaScript string is modelled as a sequence of tokens, so that        *)
(* String.includes and the regular expression /HTTP (\d+)/ are computed    *)
(* on the text and not assumed: "HTTP 503: Busy" is <<"HTTP","503",": ",   *)
(* "Busy">>, and the empty string is <<>>.  The user-facing sentences of   *)
(* the source are Korean; each is one ASCII token here.                    *)
(* An optional number (statusCode?, totalCount?) is the set of its values: *)
(* {} is undefined, {n} is n.                                              *)
(***************************************************************************)
EXTENDS Integers, Sequences, FiniteSets, TLC

VARIABLES
  runtime,     \* where the code runs: window defined or not, which keys are set
  op,          \* the client operation of the current call, or "none"
  isServer,    \* its credential flag
  pc,          \* position of the call: idle, fetch, sleep, done
  retryCount,  \* fetchWithRetry's retryCount of the GET in flight
  requests,    \* the GETs issued by this call, in order
  outcomes,    \* how each settled GET ended, in order
  waits,       \* the delays slept before each retry, in order
  raised,      \* <<e>> once fetchWithRetry has thrown e to its caller
  classified,  \* the calls of classifyError made so far: argument and result
  promise,     \* the promise the client operation returned
  statsOp,     \* the aggregator operation that was called, or "none"
  regionRun,   \* the run of getRegionStats: position, regions, branches, promise
  typeRun,     \* the run of getTypeStats: position, regions, branches, promise
  summary,     \* the promise getStatsSummary returned
  katec,       \* a call of katecToWgs84: its arguments and what it did
  naver        \* the script loader: its cached promise, the promises it made,
               \* the script element, window.naver.maps, the calls so far

clientVars == <<op, isServer, pc, retryCount, requests, outcomes, waits,
                raised, classified, promise>>
statsVars == <<statsOp, regionRun, typeRun, summary>>
utilVars == <<katec, naver>>
vars == <<runtime, clientVars, statsVars, utilVars>>

----------------------------------------------------------------------------
(* constants/api.ts *)

maxRetries == 3
initialDelay == 1000
maxDelay == 10000

----------------------------------------------------------------------------
(* bounds of the model *)

MaxExp == 6          \* retry counts 0..MaxExp are fed to getDelayMs
MaxItems == 2        \* longest items.item array of an envelope
NumTypes == 2        \* how many of the content types a getTypeStats run covers
MaxStats == 4        \* longest list of statistics handed to getStatsSummary
MaxTokens == 2       \* longest coordinate string, in tokens

----------------------------------------------------------------------------
(* JavaScript helpers *)

\* String.prototype.includes, on the token form of a string
includes(message, word) == \E i \in DOMAIN message : message[i] = word

\* a token that is a run of decimal digits
IsDigits(tok) == \E n \in 0..999 : ToString(n) = tok

\* parseInt(tok, 10) of a run of digits
parseInt(tok) == CHOOSE n \in 0..999 : ToString(n) = tok

\* a || b on strings: the empty string is falsy
OrElse(a, b) == IF a = <<>> THEN b ELSE a

\* truthiness of an optional number: undefined and 0 are falsy
TruthyNum(n) == n # {} /\ n # {0}

Min(a, b) == IF a <= b THEN a ELSE b

RECURSIVE Pow2(_)
Pow2(n) == IF n = 0 THEN 1 ELSE 2 * Pow2(n - 1)

\* error instanceof Error
instanceofError(error) == error.cls \in {"Error", "TypeError", "SyntaxError"}

\* a thrown value: its class ("string" for a thrown string, whose text is in
\* message; "other" for any other value that is not an Error), its message,
\* and the annotations fetchWithRetry writes on an error object
Thrown(cls, message) ==
  [cls |-> cls, message |-> message, errorType |-> "unset", statusCode |-> {}]

\* new Error(message), new TypeError(message), new SyntaxError(message)
NewError(cls, message) == Thrown(cls, message)

----------------------------------------------------------------------------
(* the user-facing sentences of tour-api.ts, one token each *)

MsgNetwork == <<"network connection failed, check your internet connection">>
MsgServerError == <<"an error occurred on the server">>
Msg400 == <<"bad request, check the input values">>
Msg401 == <<"authentication required, check the API key">>
Msg403 == <<"access denied, check your permissions">>
Msg404 == <<"the requested resource was not found">>
Msg429 == <<"too many requests, try again later">>
Msg500 == <<"internal server error, try again later">>
Msg503 == <<"service temporarily unavailable, try again later">>
MsgParse == <<"an error occurred while processing the server response">>
MsgUnknown == <<"an unknown error occurred">>

----------------------------------------------------------------------------
(* getDelayMs *)

getDelayMsLinear(count) ==
  Min(initialDelay * (count + 1), maxDelay)

getDelayMs(count) ==
  LET delay == initialDelay * Pow2(count)
  IN  Min(delay, maxDelay)

----------------------------------------------------------------------------
(* classifyError *)

\* error.message.match(/HTTP (\d+)/): the digits after the first "HTTP" that
\* is followed by digits, as a set (empty when there is no match)
statusMatch(message) ==
  LET hits == {i \in DOMAIN message :
                 /\ message[i] = "HTTP"
                 /\ i + 1 \in DOMAIN message
                 /\ IsDigits(message[i + 1])}
  IN  IF hits = {} THEN {}
      ELSE LET first == CHOOSE i \in hits : \A j \in hits : i <= j
           IN  {message[first + 1]}

\* the same chain with the 404 branch lost
statusMessageNo404(statusCode) ==
  IF statusCode = {400} THEN Msg400
  ELSE IF statusCode = {401} THEN Msg401
  ELSE IF statusCode = {403} THEN Msg403
  ELSE IF statusCode = {429} THEN Msg429
  ELSE IF statusCode = {500} THEN Msg500
  ELSE IF statusCode = {503} THEN Msg503
  ELSE MsgServerError

\* the if / else-if chain on statusCode
statusMessage(statusCode) ==
  IF statusCode = {400} THEN Msg400
  ELSE IF statusCode = {401} THEN Msg401
  ELSE IF statusCode = {403} THEN Msg403
  ELSE IF statusCode = {404} THEN Msg404
  ELSE IF statusCode = {429} THEN Msg429
  ELSE IF statusCode = {500} THEN Msg500
  ELSE IF statusCode = {503} THEN Msg503
  ELSE MsgServerError

classifyError(error) ==
  IF error.cls = "TypeError" /\ includes(error.message, "fetch")
  THEN [type |-> "network", message |-> MsgNetwork, statusCode |-> {}]
  ELSE IF instanceofError(error) /\ includes(error.message, "HTTP")
  THEN LET m == statusMatch(error.message)
           statusCode == IF m # {} THEN {parseInt(tok) : tok \in m} ELSE {}
       IN  [type |-> "api", message |-> statusMessage(statusCode),
            statusCode |-> statusCode]
  ELSE IF error.cls = "SyntaxError"
  THEN [type |-> "parse", message |-> MsgParse, statusCode |-> {}]
  ELSE LET errorMessage ==
             IF instanceofError(error) THEN error.message
             ELSE IF error.cls = "string" THEN error.message
             ELSE MsgUnknown
       IN  [type |-> "unknown", message |-> errorMessage, statusCode |-> {}]

----------------------------------------------------------------------------
(* fetchWithRetry: the decisions of its catch block *)

shouldRetryAnyKind(errorInfo, count) ==
  count < maxRetries

\* the same test without the limit on the number of retries
shouldRetryUnbounded(errorInfo, count) ==
  \/ errorInfo.type = "network"
  \/ /\ errorInfo.type = "api"
     /\ TruthyNum(errorInfo.statusCode)
     /\ \A s \in errorInfo.statusCode : s >= 500

shouldRetry(errorInfo, count) ==
  /\ count < maxRetries
  /\ \/ errorInfo.type = "network"
     \/ /\ errorInfo.type = "api"
        /\ TruthyNum(errorInfo.statusCode)
        /\ \A s \in errorInfo.statusCode : s >= 500

\* new Error(`HTTP ${response.status}: ${response.statusText}`)
httpError(status, statusText) ==
  NewError("Error", <<"HTTP", ToString(status), ": ">> \o statusText)

\* the error thrown for a response that is not ok (lines 123-131)
notOkError(status, statusText) ==
  LET errorInfo == classifyError(httpError(status, statusText))
  IN  [NewError("Error", errorInfo.message) EXCEPT
         !.statusCode = errorInfo.statusCode,
         !.errorType = errorInfo.type]

\* the error thrown when no retry is made (lines 161-169)
finalError(error, errorInfo) ==
  LET e == IF instanceofError(error) THEN error
           ELSE NewError("Error", errorInfo.message)
  IN  [e EXCEPT !.errorType = errorInfo.type,
                !.statusCode = IF TruthyNum(errorInfo.statusCode)
                               THEN errorInfo.statusCode ELSE @]

----------------------------------------------------------------------------
(* lib/env.ts and getCommonParams.  A call that can throw yields            *)
(* [threw |-> TRUE, error |-> e] or [threw |-> FALSE, value |-> v].         *)

Throw(e) == [threw |-> TRUE, error |-> e]
Return(v) == [threw |-> FALSE, value |-> v]

\* the aliases tried, in order, when the variable itself has no value
ENV_FALLBACKS(key) ==
  IF key = "NEXT_PUBLIC_TOUR_API_KEY" THEN <<"PUBLIC_TOUR_API_KEY", "TOUR_API_KEY">>
  ELSE IF key = "TOUR_API_KEY" THEN <<"PUBLIC_TOUR_API_KEY">>
  ELSE <<>>

\* `one of ${allKeys} is not set`, allKeys being the key and its aliases
MsgEnvMissing(key) ==
  <<"none of the environment variables ", key>> \o ENV_FALLBACKS(key) \o <<" is set">>
MsgServerOnly(key) == <<"environment variable ", key, " is only accessible on the server side">>

\* process.env[key] as the set of its values: empty when the variable is
\* unset or the empty string.  Different variables hold different values.
processEnv(key) == IF key \in runtime.env THEN {<<"value of ", key>>} ELSE {}

\* the loop over the aliases: the value of the first alias that has one
RECURSIVE firstFallback(_)
firstFallback(keys) ==
  IF keys = <<>> THEN {}
  ELSE IF processEnv(Head(keys)) # {} THEN processEnv(Head(keys))
  ELSE firstFallback(Tail(keys))

\* getEnv(key) without a default value, for a required key
getEnv(key) ==
  LET value == IF processEnv(key) # {} THEN processEnv(key)
               ELSE firstFallback(ENV_FALLBACKS(key))
  IN  IF value # {} THEN Return(CHOOSE v \in value : TRUE)
      ELSE Throw(NewError("Error", MsgEnvMissing(key)))

getServerEnv(key) ==
  IF runtime.window THEN Throw(NewError("Error", MsgServerOnly(key)))
  ELSE getEnv(key)

\* the serviceKey of the common parameters, or the error of the env lookup
getCommonParams(server) ==
  IF server THEN getServerEnv("TOUR_API_KEY")
  ELSE getEnv("NEXT_PUBLIC_TOUR_API_KEY")

----------------------------------------------------------------------------
(* parseApiResponse *)

MsgApiCallFailed == <<"an error occurred while calling the API">>
MsgCode01 == <<"a required parameter is missing">>
MsgCode02 == <<"invalid parameter value">>
MsgCode03 == <<"the service key is not valid">>
MsgCode04 == <<"the service key has expired">>
MsgCode05 == <<"the daily call limit was exceeded">>
MsgNoData == <<"no data was found">>

\* reading a property of undefined or null
PropertyTypeError(what) ==
  NewError("TypeError", <<"Cannot read properties of undefined (reading '", what, "')">>)

\* the same choice with the upstream text preferred to the curated sentence
userMessageRawFirst(errorCode, resultMsg) ==
  IF resultMsg # <<>> THEN resultMsg
  ELSE IF errorCode = "01" THEN MsgCode01
  ELSE IF errorCode = "02" THEN MsgCode02
  ELSE IF errorCode = "03" THEN MsgCode03
  ELSE IF errorCode = "04" THEN MsgCode04
  ELSE IF errorCode = "05" THEN MsgCode05
  ELSE MsgApiCallFailed

\* the message chosen for a resultCode other than "0000" (lines 183-197)
userMessage(errorCode, resultMsg) ==
  IF errorCode = "01" THEN MsgCode01
  ELSE IF errorCode = "02" THEN MsgCode02
  ELSE IF errorCode = "03" THEN MsgCode03
  ELSE IF errorCode = "04" THEN MsgCode04
  ELSE IF errorCode = "05" THEN MsgCode05
  ELSE OrElse(resultMsg, MsgApiCallFailed)

\* items.item with an empty string for items read as an empty list
itemOfEmptyAsList(items) ==
  IF items.kind \in {"object", "array"} THEN {items}
  ELSE IF items.kind = "emptyString" THEN {[kind |-> "array", v |-> <<>>]}
  ELSE {}

\* response.body.items?.item: {} when it is undefined, else {the item value}
itemOf(items) ==
  IF items.kind \in {"object", "array"} THEN {items} ELSE {}

\* !items with the guard lost: every body counts as carrying items
noItemsNever(item) == FALSE

\* !items || items.length === 0: an empty array counted as no items
noItemsOrEmpty(item) ==
  item = {} \/ \E i \in item : i.kind = "array" /\ i.v = <<>>

\* !items: the item is undefined (an object or an array, even [], is truthy)
noItems(item) == item = {}

\* the length of the page taken for the total
totalCountOfPage(data) ==
  IF data.items.kind = "array" THEN {Len(data.items.v)} ELSE {1}

\* response.body.totalCount (line 228)
totalCountOf(data) == data.totalCount

parseApiResponse(data) ==
  IF data.isNull \/ ~data.hasResponse THEN Throw(PropertyTypeError("header"))
  ELSE IF ~data.hasHeader THEN Throw(PropertyTypeError("resultCode"))
  ELSE IF data.resultCode # "0000"
  THEN Return([success |-> FALSE,
               error |-> userMessage(data.resultCode, data.resultMsg),
               code |-> data.resultCode])
  ELSE IF ~data.hasBody THEN Throw(PropertyTypeError("items"))
  ELSE LET item == itemOf(data.items)
       IN  IF noItems(item)
           THEN Return([success |-> FALSE, error |-> MsgNoData])
           ELSE IF item = {}
           THEN Return([success |-> TRUE, totalCount |-> data.totalCount])
           ELSE LET items == CHOOSE i \in item : TRUE
                    \* a single object stays an object, an array stays an array
                    itemArray == IF items.kind = "array" THEN items
                                 ELSE [kind |-> "array", v |-> <<items.obj>>]
                IN  Return([success |-> TRUE,
                            data |-> IF Len(itemArray.v) = 1 /\ items.kind # "array"
                                     THEN items ELSE itemArray,
                            totalCount |-> totalCountOf(data)])

----------------------------------------------------------------------------
(* the client operations: each is try { params; fetchWithRetry;            *)
(* parseApiResponse } catch { classifyError; failure result }              *)

Ops == {"getAreaCode", "getAreaBasedList", "searchKeyword", "getDetailCommon",
        "getDetailIntro", "getDetailImage", "getDetailPetTour"}

\* the path of the operation's URL
Endpoint(o) ==
  CASE o = "getAreaCode" -> "/areaCode2"
    [] o = "getAreaBasedList" -> "/areaBasedList2"
    [] o = "searchKeyword" -> "/searchKeyword2"
    [] o = "getDetailCommon" -> "/detailCommon2"
    [] o = "getDetailIntro" -> "/detailIntro2"
    [] o = "getDetailImage" -> "/detailImage2"
    [] o = "getDetailPetTour" -> "/detailPetTour2"

\* the operation's own sentence, used when the classified message is empty
Fallback(o) == <<"an error occurred in ", o>>

Pending == [state |-> "pending"]
Fulfilled(v) == [state |-> "fulfilled", value |-> v]
Rejected(e) == [state |-> "rejected", reason |-> e]

\* a catch block that lets the error through
clientCatchRethrow(o, error) == Rejected(error)

\* a catch block that trusts the classified message to be non-empty
clientCatchNoFallback(o, error) ==
  Fulfilled([success |-> FALSE, error |-> classifyError(error).message])

\* the catch block of a client operation
clientCatch(o, error) ==
  LET errorInfo == classifyError(error)
  IN  Fulfilled([success |-> FALSE, error |-> OrElse(errorInfo.message, Fallback(o))])

\* return parseApiResponse(data), inside the try
clientParse(o, data) ==
  LET r == parseApiResponse(data)
  IN  IF r.threw THEN clientCatch(o, r.error) ELSE Fulfilled(r.value)

----------------------------------------------------------------------------
(* inputs: the runtime, and what the upstream can answer *)

EnvKeys == {"NEXT_PUBLIC_TOUR_API_KEY", "PUBLIC_TOUR_API_KEY", "TOUR_API_KEY"}

\* the deployments covered: no key, one of the three, or the two documented
\* ones together
EnvSets ==
  { {}, {"NEXT_PUBLIC_TOUR_API_KEY"}, {"TOUR_API_KEY"}, {"PUBLIC_TOUR_API_KEY"},
    {"NEXT_PUBLIC_TOUR_API_KEY", "TOUR_API_KEY"} }

\* a server has any of these; the bundle of a browser carries at most the
\* NEXT_PUBLIC_ variable
Runtimes ==
  {r \in [window : BOOLEAN, env : EnvSets] :
     r.window => r.env \subseteq {"NEXT_PUBLIC_TOUR_API_KEY"}}

\* what fetch(url) can reject with.  A failed request rejects with a
\* TypeError whose message is the engine's: "fetch failed" (Node),
\* "Failed to fetch" (Chromium), "Load failed" (WebKit).  The other values
\* are what a replaced fetch may throw.
TransportErrors ==
  { NewError("TypeError", <<"fetch", " failed">>),
    NewError("TypeError", <<"Failed to ", "fetch">>),
    NewError("TypeError", <<"Load failed">>) }

OtherThrown ==
  { NewError("Error", <<"boom">>),
    NewError("Error", <<>>),
    Thrown("string", <<"boom">>),
    Thrown("other", <<>>) }

RejectValues == TransportErrors \cup OtherThrown

OkStatuses == {200}
NotOkStatuses == {400, 401, 403, 404, 418, 429, 500, 502, 503}
StatusTexts == {<<>>, <<"Status Text">>}

ItemIds == {"a", "b"}

RECURSIVE SeqsUpTo(_)
SeqsUpTo(n) ==
  IF n = 0 THEN {<<>>}
  ELSE LET shorter == SeqsUpTo(n - 1)
       IN  shorter \cup {Append(q, x) : q \in {t \in shorter : Len(t) = n - 1}, x \in ItemIds}

\* the value of body.items
ItemsValues ==
  {[kind |-> "absent"], [kind |-> "emptyString"], [kind |-> "noItem"]}
  \cup {[kind |-> "object", obj |-> x] : x \in ItemIds}
  \cup {[kind |-> "array", v |-> q] : q \in SeqsUpTo(MaxItems)}

TotalCounts == {{}, {0}, {2}, {45}}

Data(isNull, hasResponse, hasHeader, code, msg, hasBody, items, tc) ==
  [isNull |-> isNull, hasResponse |-> hasResponse, hasHeader |-> hasHeader,
   resultCode |-> code, resultMsg |-> msg, hasBody |-> hasBody,
   items |-> items, totalCount |-> tc]

\* the JSON values a 2xx response can carry
Envelopes ==
  { Data(TRUE, FALSE, FALSE, "", <<>>, FALSE, [kind |-> "absent"], {}),
    Data(FALSE, FALSE, FALSE, "", <<>>, FALSE, [kind |-> "absent"], {}),
    Data(FALSE, TRUE, FALSE, "", <<>>, FALSE, [kind |-> "absent"], {}),
    Data(FALSE, TRUE, TRUE, "0000", <<"OK">>, FALSE, [kind |-> "absent"], {}) }
  \cup { Data(FALSE, TRUE, TRUE, code, msg, FALSE, [kind |-> "absent"], {}) :
           code \in {"01", "02", "03", "04", "05", "99"},
           msg \in {<<>>, <<"SERVICE ERROR">>} }
  \cup { Data(FALSE, TRUE, TRUE, "0000", <<"OK">>, TRUE, items, tc) :
           items \in ItemsValues, tc \in TotalCounts }

\* the message of the SyntaxError of response.json().  The engine writes it:
\* "Unexpected token < in JSON at position 0", or, quoting the first ten
\* characters of the body, "Unexpected token 'H', "HTTP 503 S"... is not
\* valid JSON" for a body that is the text HTTP 503 Service Unavailable
SyntaxErrorMessages ==
  { <<"Unexpected token < in JSON at position 0">>,
    <<"Unexpected token H, ", "HTTP", "/1.1 ... is not valid JSON">>,
    <<"Unexpected token H, ", "HTTP", "503", " S... is not valid JSON">> }

Bodies ==
  {[json |-> FALSE, syntaxError |-> m] : m \in SyntaxErrorMessages}
  \cup {[json |-> TRUE, data |-> d] : d \in Envelopes}

----------------------------------------------------------------------------
(* lib/utils/coordinates.ts.  A string is its sequence of tokens; a token  *)
(* is a run of digits, a blank, a minus sign, a decimal point or a word.   *)
(* A JavaScript number is NaN or mantissa / 10^scale, with the mantissa    *)
(* not divisible by ten unless the scale is 0.                             *)

DigitTokens == {"127", "0000000", "1"}
CoordinateTokens == DigitTokens \cup {" ", "-", ".", "abc"}

\* the number a run of digits spells, and how many digits it has
DigitValue(token) == IF token = "127" THEN 127 ELSE IF token = "1" THEN 1 ELSE 0
DigitLen(token) == IF token = "127" THEN 3 ELSE IF token = "1" THEN 1 ELSE 7

RECURSIVE Pow10(_)
Pow10(n) == IF n = 0 THEN 1 ELSE 10 * Pow10(n - 1)

NaN == [nan |-> TRUE]

RECURSIVE Num(_, _)
Num(mantissa, scale) ==
  IF scale > 0 /\ mantissa % 10 = 0 THEN Num(mantissa \div 10, scale - 1)
  ELSE [nan |-> FALSE, mantissa |-> mantissa, scale |-> scale]

isNaN(x) == x.nan

\* x / 10^k
DividedByPow10(x, k) == IF x.nan THEN NaN ELSE Num(x.mantissa, x.scale + k)

\* the longest prefix of text made of digit tokens
RECURSIVE digitRun(_)
digitRun(text) ==
  IF text = <<>> \/ Head(text) \notin DigitTokens THEN <<>>
  ELSE <<Head(text)>> \o digitRun(Tail(text))

RECURSIVE runValue(_)
runValue(run) ==
  IF run = <<>> THEN 0
  ELSE runValue(SubSeq(run, 1, Len(run) - 1)) * Pow10(DigitLen(run[Len(run)]))
         + DigitValue(run[Len(run)])

RECURSIVE runLen(_)
runLen(run) == IF run = <<>> THEN 0 ELSE DigitLen(Head(run)) + runLen(Tail(run))

RECURSIVE skipBlanks(_)
skipBlanks(text) ==
  IF text # <<>> /\ Head(text) = " " THEN skipBlanks(Tail(text)) ELSE text

\* parseFloat(text): leading blanks are skipped, then the longest prefix that
\* is a decimal literal is read and what follows it is ignored; NaN when
\* there is no such prefix
parseFloat(text) ==
  LET trimmed == skipBlanks(text)
      negative == trimmed # <<>> /\ Head(trimmed) = "-"
      unsigned == IF negative THEN Tail(trimmed) ELSE trimmed
      int == digitRun(unsigned)
      rest == SubSeq(unsigned, Len(int) + 1, Len(unsigned))
      frac == IF rest # <<>> /\ Head(rest) = "." THEN digitRun(Tail(rest)) ELSE <<>>
      magnitude == runValue(int) * Pow10(runLen(frac)) + runValue(frac)
  IN  IF int = <<>> /\ frac = <<>> THEN NaN
      ELSE Num(IF negative THEN 0 - magnitude ELSE magnitude, runLen(frac))

\* an argument of katecToWgs84: string | number
StringArg(text) == [type |-> "string", text |-> text]
NumberArg(x) == [type |-> "number", value |-> x]

\* `${arg}` in the message of the error
ArgText(arg) ==
  IF arg.type = "string" THEN arg.text
  ELSE IF arg.value.nan THEN <<"NaN">>
  ELSE <<ToString(arg.value.mantissa), "e-", ToString(arg.value.scale)>>

MsgInvalidCoordinates(mapx, mapy) ==
  <<"invalid coordinates. mapx: ">> \o ArgText(mapx) \o <<", mapy: ">> \o ArgText(mapy)

katecToWgs84(mapx, mapy) ==
  LET x == IF mapx.type = "string" THEN parseFloat(mapx.text) ELSE mapx.value
      y == IF mapy.type = "string" THEN parseFloat(mapy.text) ELSE mapy.value
  IN  IF isNaN(x) \/ isNaN(y)
      THEN Throw(NewError("Error", MsgInvalidCoordinates(mapx, mapy)))
      ELSE Return([lng |-> DividedByPow10(x, 7), lat |-> DividedByPow10(y, 7)])

\* katecToWgs84 has not been called
NotCalled == [args |-> <<>>, out |-> <<>>]

----------------------------------------------------------------------------
(* lib/utils/naver-maps.ts *)

\* the calls of loadNaverMapsScript that are followed
MaxLoads == 3

\* a promise the loader made, with the interval and the timer that its
\* executor or its script's onload started and that have not been cleared
Attempt(state) == [promise |-> state, checkNaver |-> FALSE, timeout |-> FALSE]

\* setInterval(checkNaver, 100) and setTimeout(..., 10000)
Waiting(attempt) == [attempt EXCEPT !.checkNaver = TRUE, !.timeout = TRUE]

\* resolve() and reject(e) act on a pending promise only
resolve(attempt) ==
  IF attempt.promise = Pending THEN [attempt EXCEPT !.promise = Fulfilled(<<>>)]
  ELSE attempt

reject(attempt, e) ==
  IF attempt.promise = Pending THEN [attempt EXCEPT !.promise = Rejected(e)]
  ELSE attempt

\* the module when it is loaded: scriptLoadPromise is null (0, else the
\* index of the promise), no promise made; script is the state of the element
\* with id "naver-maps-script" and owner the promise whose executor created
\* it (0 when this module did not); maps is window.naver?.maps; calls holds,
\* for every call, the promise it returned and the state it was in then
NoLoader ==
  [scriptLoadPromise |-> 0, attempts |-> <<>>, script |-> "none", owner |-> 0,
   maps |-> FALSE, calls |-> <<>>]

\* the return of a call: the promise is recorded with its state
returned(n, k) ==
  [n EXCEPT !.calls = Append(@, [promise |-> k,
                                 state |-> n.attempts[k].promise.state])]

\* the cache set to a new promise, which is returned
cached(n, attempt) ==
  returned([n EXCEPT !.attempts = Append(@, attempt),
                     !.scriptLoadPromise = Len(n.attempts) + 1],
           Len(n.attempts) + 1)

\* the module after a call of loadNaverMapsScript()
loadNaverMapsScript(window, n) ==
  IF n.scriptLoadPromise # 0 THEN returned(n, n.scriptLoadPromise)
  ELSE IF window /\ n.maps THEN cached(n, Attempt(Fulfilled(<<>>)))
  ELSE IF ~window
  THEN cached(n, Attempt(Rejected(NewError("Error", <<"Window is not defined">>))))
  ELSE IF n.script # "none" THEN cached(n, Waiting(Attempt(Pending)))
  ELSE cached([n EXCEPT !.script = "loading", !.owner = Len(n.attempts) + 1],
              Attempt(Pending))

\* script.onload of the element this module created
onload(n) ==
  IF n.owner = 0 THEN n
  ELSE [n EXCEPT !.attempts[n.owner] = Waiting(@)]

\* script.onerror of the element this module created
onerror(n) ==
  IF n.owner = 0 THEN n
  ELSE [n EXCEPT !.scriptLoadPromise = 0,
                 !.attempts[n.owner] =
                    reject(@, NewError("Error", <<"Naver Maps API script load failed">>))]

\* a tick of the interval that finds window.naver.maps
checkNaver(attempt) == resolve([attempt EXCEPT !.checkNaver = FALSE])

\* the callback of the ten-second timer
timeout(attempt, maps) ==
  LET cleared == [attempt EXCEPT !.checkNaver = FALSE, !.timeout = FALSE]
  IN  IF ~maps THEN reject(cleared, NewError("Error", <<"Naver Maps API load timeout">>))
      ELSE cleared

----------------------------------------------------------------------------
(* a run of an aggregator of stats-api.ts *)

\* listed records that the run took its regions from a fetched region list,
\* lookup what its region-list lookup resolved to, calls the arguments of
\* the listing calls it has issued, one per branch, and, for getRegionStats,
\* empty the regions whose listing call was answered without items
Off == [pc |-> "off", listed |-> FALSE, lookup |-> <<>>, areaCodes |-> <<>>,
        calls |-> <<>>, branches |-> <<>>, empty |-> {}, promise |-> Pending]

----------------------------------------------------------------------------
(* the state machine of one client call *)

Init ==
  /\ runtime \in Runtimes
  /\ op = "none"
  /\ isServer = FALSE
  /\ pc = "idle"
  /\ retryCount = 0
  /\ requests = <<>>
  /\ outcomes = <<>>
  /\ waits = <<>>
  /\ raised = <<>>
  /\ classified = <<>>
  /\ promise = Pending
  /\ statsOp = "none"
  /\ regionRun = Off
  /\ typeRun = Off
  /\ summary = Pending
  /\ katec = NotCalled
  /\ naver = NoLoader

\* one call of classifyError, as it is recorded
Classified(error) == [error |-> error, errorInfo |-> classifyError(error)]

\* the GET of fetchWithRetry(url, count)
Request(key, count) ==
  [endpoint |-> Endpoint(op'), serviceKey |-> key, retryCount |-> count]

\* a client operation is called: the parameters are built and the first GET
\* is issued, or the env lookup throws into the catch block
Call(o, server) ==
  /\ pc = "idle"
  /\ statsOp = "none"
  /\ op' = o
  /\ isServer' = server
  /\ LET params == getCommonParams(server)
     IN  IF params.threw
         THEN /\ promise' = clientCatch(o, params.error)
              /\ classified' = <<Classified(params.error)>>
              /\ pc' = "done"
              /\ UNCHANGED requests
         ELSE /\ requests' = <<Request(params.value, 0)>>
              /\ pc' = "fetch"
              /\ UNCHANGED <<promise, classified>>
  /\ UNCHANGED <<runtime, utilVars, retryCount, outcomes, waits, raised, statsVars>>

\* the catch block of fetchWithRetry, followed by the caller's catch block
\* when the error is thrown on; before are the classifications the try block
\* made on the way
Catch(error, before) ==
  LET errorInfo == classifyError(error)
  IN  IF shouldRetry(errorInfo, retryCount)
      THEN /\ waits' = Append(waits, getDelayMs(retryCount))
           /\ classified' = classified \o before \o <<Classified(error)>>
           /\ pc' = "sleep"
           /\ UNCHANGED <<raised, promise>>
      ELSE LET thrown == finalError(error, errorInfo)
           IN  /\ raised' = <<thrown>>
               /\ promise' = clientCatch(op, thrown)
               /\ classified' = classified \o before
                                   \o <<Classified(error), Classified(thrown)>>
               /\ pc' = "done"
               /\ UNCHANGED waits

\* await fetch(url) rejects
FetchRejects(e) ==
  /\ pc = "fetch"
  /\ outcomes' = Append(outcomes, [kind |-> "reject", error |-> e])
  /\ Catch(e, <<>>)
  /\ UNCHANGED <<runtime, utilVars, op, isServer, retryCount, requests, statsVars>>

\* await fetch(url) resolves to a response that is not ok
RespondsNotOk(status, statusText) ==
  /\ pc = "fetch"
  /\ outcomes' = Append(outcomes, [kind |-> "status", status |-> status,
                                   statusText |-> statusText])
  /\ Catch(notOkError(status, statusText), <<Classified(httpError(status, statusText))>>)
  /\ UNCHANGED <<runtime, utilVars, op, isServer, retryCount, requests, statsVars>>

\* await fetch(url) resolves to an ok response: response.json() throws, or
\* the data is returned to the client operation, which normalizes it
RespondsOk(status, body) ==
  /\ pc = "fetch"
  /\ outcomes' = Append(outcomes, [kind |-> "ok", status |-> status, body |-> body])
  /\ IF ~body.json
     THEN Catch(NewError("SyntaxError", body.syntaxError), <<>>)
     ELSE /\ promise' = clientParse(op, body.data)
          /\ classified' = classified \o
               (LET r == parseApiResponse(body.data)
                IN  IF r.threw THEN <<Classified(r.error)>> ELSE <<>>)
          /\ pc' = "done"
          /\ UNCHANGED <<waits, raised>>
  /\ UNCHANGED <<runtime, utilVars, op, isServer, retryCount, requests, statsVars>>

\* the backoff timer fires: fetchWithRetry(url, retryCount + 1)
TimerFires ==
  /\ pc = "sleep"
  /\ retryCount' = retryCount + 1
  /\ requests' = Append(requests, [requests[1] EXCEPT !.retryCount = retryCount + 1])
  /\ pc' = "fetch"
  /\ UNCHANGED <<runtime, utilVars, op, isServer, outcomes, waits, raised, classified,
                 promise, statsVars>>

\* the caller has taken the result; the next call starts from scratch
CallerResumes ==
  /\ pc = "done"
  /\ pc' = "idle"
  /\ retryCount' = 0
  /\ requests' = <<>>
  /\ outcomes' = <<>>
  /\ waits' = <<>>
  /\ raised' = <<>>
  /\ classified' = <<>>
  /\ promise' = Pending
  /\ op' = "none"
  /\ isServer' = FALSE
  /\ UNCHANGED <<runtime, utilVars, statsVars>>

Next ==
  \/ \E o \in Ops, server \in BOOLEAN : Call(o, server)
  \/ \E e \in RejectValues : FetchRejects(e)
  \/ \E status \in NotOkStatuses, statusText \in StatusTexts :
       RespondsNotOk(status, statusText)
  \/ \E status \in OkStatuses, body \in Bodies : RespondsOk(status, body)
  \/ TimerFires
  \/ CallerResumes

Spec == Init /\ [][Next]_vars

TypeOK ==
  /\ pc \in {"idle", "fetch", "sleep", "done"}
  /\ retryCount \in 0..maxRetries
  /\ Len(requests) <= maxRetries + 1

----------------------------------------------------------------------------
(* stats-api.ts: getRegionStats, getTypeStats, getStatsSummary.            *)
(* Each branch of a fan-out is one client call; the aggregator sees only   *)
(* the ApiResult the call resolves to, which clientResult computes from    *)
(* the answer to the call's last GET.                                      *)

MsgAreaCodeFailed == <<"failed to look up the area codes">>
MsgAllRegionsFailed == <<"the statistics of every region failed">>
MsgAllTypesFailed == <<"the statistics of every type failed">>
MsgSummaryFailed == <<"failed to look up the statistics summary">>
\* the TypeError of areaCodes.map when data is not an array
MsgMapNotFunction == <<"areaCodes.map is not a function">>

TOUR_CONTENT_TYPE_IDS == <<12, 14, 15, 25, 28, 32, 38, 39>>

\* the content types a run covers
TypeIds == SubSeq(TOUR_CONTENT_TYPE_IDS, 1, NumTypes)

\* getContentTypeNameById(typeId)
getContentTypeNameById(typeId) == <<"name of type ", ToString(typeId)>>

\* the ApiResult of client operation o when its last GET ends with answer
clientResult(o, server, answer) ==
  LET params == getCommonParams(server)
      failure(error) == clientCatch(o, finalError(error, classifyError(error))).value
  IN  IF params.threw THEN clientCatch(o, params.error).value
      ELSE IF answer.kind = "reject" THEN failure(answer.error)
      ELSE IF answer.kind = "status"
      THEN failure(notOkError(answer.status, answer.statusText))
      ELSE IF ~answer.body.json
      THEN failure(NewError("SyntaxError", answer.body.syntaxError))
      ELSE clientParse(o, answer.body.data).value

OkAnswer(items, tc) ==
  [kind |-> "ok", status |-> 200,
   body |-> [json |-> TRUE,
             data |-> Data(FALSE, TRUE, TRUE, "0000", <<"OK">>, TRUE, items, tc)]]

FailedAnswers ==
  { [kind |-> "reject", error |-> NewError("TypeError", <<"fetch", " failed">>)],
    [kind |-> "ok", status |-> 200,
     body |-> [json |-> TRUE,
               data |-> Data(FALSE, TRUE, TRUE, "03", <<>>, FALSE, [kind |-> "absent"], {})]] }

\* the regions the upstream lists, in its order
RegionCodes == <<"a", "b">>

\* answers to the region-list lookup: failures, no items, one region as a
\* single object, and the first n regions as an array
LookupAnswers ==
  FailedAnswers
  \cup { OkAnswer([kind |-> "emptyString"], {0}),
         OkAnswer([kind |-> "object", obj |-> RegionCodes[1]], {1}) }
  \cup { OkAnswer([kind |-> "array", v |-> SubSeq(RegionCodes, 1, n)], {n}) :
           n \in 0..Len(RegionCodes) }

\* the upstream answered "0000" with a body that carries no item
AnsweredWithoutItems(answer) ==
  /\ answer.kind = "ok"
  /\ answer.body.json
  /\ answer.body.data.resultCode = "0000"
  /\ answer.body.data.hasBody
  /\ answer.body.data.items.kind \notin {"object", "array"}

\* answers to a listing call with numOfRows = 1
BranchAnswers ==
  { [kind |-> "reject", error |-> NewError("TypeError", <<"fetch", " failed">>)],
    OkAnswer([kind |-> "emptyString"], {0}),
    OkAnswer([kind |-> "array", v |-> <<"a">>], {2}),
    OkAnswer([kind |-> "array", v |-> <<"a">>], {45}) }

\* answers to a listing call of one content type in one region: the same
\* failures, and one total
TypeBranchAnswers ==
  {answer \in BranchAnswers :
     answer.kind = "ok" => answer.body.data.totalCount \in {{0}, {2}}}

Failure(message) == Fulfilled([success |-> FALSE, error |-> message])

\* a branch whose failed listing call rejects its promise
SettledRejectsFailure(value, result) ==
  [state |-> IF result.success THEN "fulfilled" ELSE "rejected",
   value |-> value,
   reason |-> NewError("Error", IF result.success THEN <<>> ELSE result.error),
   call |-> [success |-> result.success,
             totalCount |-> IF result.success THEN result.totalCount ELSE {}]]

\* a settled branch of a fan-out: the value its callback returned, and, for
\* the record, whether the listing call it awaited succeeded and with which
\* totalCount
Settled(value, result) ==
  [state |-> "fulfilled", value |-> value,
   call |-> [success |-> result.success,
             totalCount |-> IF result.success THEN result.totalCount ELSE {}]]

AllSettled(branches) == \A i \in DOMAIN branches : branches[i].state = "fulfilled"

\* the orders in which n branches can settle
Orders(n) == {f \in [1..n -> 1..n] : \A j, k \in 1..n : f[j] = f[k] => j = k}

\* branches picked in another order
Reordered(branches, order) == [k \in DOMAIN branches |-> branches[order[k]]]

\* Promise.all resolving to the values in the order the branches settled
promiseAllInCompletionOrder(branches, completion) ==
  IF \E i \in DOMAIN branches : branches[i].state = "rejected"
  THEN LET first == CHOOSE k \in DOMAIN branches :
                      /\ branches[completion[k]].state = "rejected"
                      /\ \A j \in 1..(k - 1) : branches[completion[j]].state # "rejected"
       IN  [state |-> "rejected", reason |-> branches[completion[first]].reason]
  ELSE IF AllSettled(branches)
  THEN [state |-> "fulfilled", value |-> Reordered(branches, completion)]
  ELSE [state |-> "pending"]

\* Promise.all giving up on the branches still pending once one has settled
promiseAllOfTheSettled(branches, completion) ==
  IF \E i \in DOMAIN branches : branches[i].state = "rejected"
  THEN LET first == CHOOSE k \in DOMAIN branches :
                      /\ branches[completion[k]].state = "rejected"
                      /\ \A j \in 1..(k - 1) : branches[completion[j]].state # "rejected"
       IN  [state |-> "rejected", reason |-> branches[completion[first]].reason]
  ELSE IF branches = <<>> \/ \E i \in DOMAIN branches : branches[i].state = "fulfilled"
  THEN [state |-> "fulfilled",
        value |-> SelectSeq(branches, LAMBDA b : b.state = "fulfilled")]
  ELSE [state |-> "pending"]

\* Promise.all(branches) when the branches settle in the order completion:
\* rejected with the reason of the first branch that rejected, fulfilled
\* with the settled branches in the order of the array passed once every
\* branch is fulfilled, pending otherwise
promiseAll(branches, completion) ==
  IF \E i \in DOMAIN branches : branches[i].state = "rejected"
  THEN LET first == CHOOSE k \in DOMAIN branches :
                      /\ branches[completion[k]].state = "rejected"
                      /\ \A j \in 1..(k - 1) : branches[completion[j]].state # "rejected"
       IN  [state |-> "rejected", reason |-> branches[completion[first]].reason]
  ELSE IF AllSettled(branches)
  THEN [state |-> "fulfilled", value |-> branches]
  ELSE [state |-> "pending"]

\* Array.prototype.filter(result => result !== null) on settled branches
\* whose value is {} for null and {x} for x
NotNull(branches) ==
  LET kept == SelectSeq(branches, LAMBDA b : b.value # {})
  IN  [k \in DOMAIN kept |-> CHOOSE x \in kept[k].value : TRUE]

\* Array.prototype.sort((a, b) => b.count - a.count): stable, by count
\* descending
\* the same insertion with the new element put before its equals
RECURSIVE InsertByCountBeforeEquals(_, _)
InsertByCountBeforeEquals(sorted, x) ==
  IF sorted = <<>> THEN <<x>>
  ELSE IF Head(sorted).count > x.count
       THEN <<Head(sorted)>> \o InsertByCountBeforeEquals(Tail(sorted), x)
       ELSE <<x>> \o sorted

RECURSIVE InsertByCount(_, _)
InsertByCount(sorted, x) ==
  IF sorted = <<>> THEN <<x>>
  ELSE IF Head(sorted).count >= x.count
       THEN <<Head(sorted)>> \o InsertByCount(Tail(sorted), x)
       ELSE <<x>> \o sorted

RECURSIVE SortByCount(_)
SortByCount(list) ==
  IF list = <<>> THEN <<>>
  ELSE \* the sorted prefix and the last element, each computed once
       CHOOSE result \in {InsertByCount(sorted, x) :
                            sorted \in {SortByCount(SubSeq(list, 1, Len(list) - 1))},
                            x \in {list[Len(list)]}} : TRUE

\* reduce((sum, count) => sum + count, 0) over the counts of settled branches
RECURSIVE SumValues(_)
SumValues(branches) ==
  IF branches = <<>> THEN 0 ELSE Head(branches).value + SumValues(Tail(branches))

RECURSIVE SumCounts(_)
SumCounts(list) ==
  IF list = <<>> THEN 0 ELSE Head(list).count + SumCounts(Tail(list))

\* the last three entries instead of the first three
Last3(list) == SubSeq(list, Len(list) - Min(3, Len(list)) + 1, Len(list))

\* Array.prototype.slice(0, 3)
Top3(list) == SubSeq(list, 1, Min(3, Len(list)))

\* the result of the region-list lookup as the run records it
LookupOutcome(areaCodeResult) ==
  [success |-> areaCodeResult.success,
   error |-> IF areaCodeResult.success THEN <<>> ELSE areaCodeResult.error]

\* the same with the message of the run in place of the message of the lookup
afterLookupOwnMessage(run, areaCodeResult, mapThrows) ==
  LET awaited == [run EXCEPT !.lookup = <<LookupOutcome(areaCodeResult)>>]
  IN  IF ~areaCodeResult.success \/ "data" \notin DOMAIN areaCodeResult
      THEN [awaited EXCEPT !.pc = "done", !.promise = Failure(MsgAreaCodeFailed)]
      ELSE IF areaCodeResult.data.kind # "array"
      THEN [awaited EXCEPT !.pc = "done", !.promise = Failure(mapThrows)]
      ELSE [awaited EXCEPT !.pc = "fanout", !.listed = TRUE,
                           !.areaCodes = areaCodeResult.data.v]

\* lines 45-54 and 138-147: the run after its region-list lookup resolved to
\* areaCodeResult.  When data is not an array areaCodes.map throws: in
\* getRegionStats into the outer catch, which returns error.message; in
\* getTypeStats into the catch of every type, which returns null, so that no
\* type is left.  mapThrows is the message the run then fails with.
afterLookup(run, areaCodeResult, mapThrows) ==
  LET awaited == [run EXCEPT !.lookup = <<LookupOutcome(areaCodeResult)>>]
  IN  IF ~areaCodeResult.success
      THEN [awaited EXCEPT !.pc = "done",
              !.promise = Failure(OrElse(areaCodeResult.error, MsgAreaCodeFailed))]
      ELSE IF "data" \notin DOMAIN areaCodeResult
      THEN [awaited EXCEPT !.pc = "done", !.promise = Failure(MsgAreaCodeFailed)]
      ELSE IF areaCodeResult.data.kind # "array"
      THEN [awaited EXCEPT !.pc = "done", !.promise = Failure(mapThrows)]
      ELSE [awaited EXCEPT !.pc = "fanout", !.listed = TRUE,
                           !.areaCodes = areaCodeResult.data.v]

\* the arguments of one getAreaBasedList call; contentTypeId is {} when
\* undefined is passed
ListingCall(areaCode, contentTypeId, numOfRows, pageNo, server) ==
  [areaCode |-> areaCode, contentTypeId |-> contentTypeId,
   numOfRows |-> numOfRows, pageNo |-> pageNo, isServer |-> server]

\* lines 57-66: areaCodes.map issues the listing call of every region before
\* the first await of the run
regionCalls(areaCodes) ==
  [i \in DOMAIN areaCodes |-> ListingCall(areaCodes[i], {}, 1, 1, TRUE)]

\* one listing call per content type, of the whole country
typeCallsPerType(areaCodes) ==
  [t \in DOMAIN TypeIds |-> <<ListingCall(<<>>, {TypeIds[t]}, 1, 1, TRUE)>>]

\* lines 150-161: the callback of every content type runs up to its
\* Promise.all, and issues the listing call of every region on the way
typeCalls(areaCodes) ==
  [t \in DOMAIN TypeIds |->
     [i \in DOMAIN areaCodes |-> ListingCall(areaCodes[i], {TypeIds[t]}, 1, 1, TRUE)]]

\* lines 68-83 with the failed region kept, its count 0
regionValueKeepsFailed(area, result) ==
  IF result.success /\ result.totalCount # {}
  THEN {[areaCode |-> area, areaName |-> area,
         count |-> CHOOSE n \in result.totalCount : TRUE]}
  ELSE {[areaCode |-> area, areaName |-> area, count |-> 0]}

\* lines 68-83: what the callback of a region returns for the result of its
\* listing call: {} for null.  A region item x has areacode x and title x.
regionValue(area, result) ==
  IF result.success /\ result.totalCount # {}
  THEN {[areaCode |-> area, areaName |-> area,
         count |-> CHOOSE n \in result.totalCount : TRUE]}
  ELSE {}

\* lines 163-166 with the number of items of the page taken for the count
typeCountOfPage(result) ==
  IF result.success /\ result.totalCount # {}
  THEN Len(result.data.v)
  ELSE 0

\* lines 163-166: the count a region contributes to a type
typeCount(result) ==
  IF result.success /\ result.totalCount # {}
  THEN CHOOSE n \in result.totalCount : TRUE
  ELSE 0

\* lines 247-250 with the message of the type statistics preferred
summaryErrorTypeFirst(regionResult, typeResult) ==
  IF ~typeResult.success THEN typeResult.error
  ELSE regionResult.error

\* line 244: the summary fails
summaryFails(regionResult, typeResult) ==
  ~regionResult.success \/ ~typeResult.success

\* lines 247-250: the message the summary fails with
summaryError(regionResult, typeResult) ==
  IF ~regionResult.success THEN regionResult.error
  ELSE OrElse(typeResult.error, MsgSummaryFailed)

\* an aggregator operation is called; getStatsSummary calls the other two
StartStats(o) ==
  /\ statsOp = "none"
  /\ pc = "idle"
  /\ statsOp' = o
  /\ regionRun' = IF o \in {"getRegionStats", "getStatsSummary"}
                  THEN [Off EXCEPT !.pc = "lookup"] ELSE Off
  /\ typeRun' = IF o \in {"getTypeStats", "getStatsSummary"}
                THEN [Off EXCEPT !.pc = "lookup"] ELSE Off
  /\ summary' = Pending
  /\ UNCHANGED <<runtime, utilVars, clientVars>>

\* getRegionStats: await getAreaCode(undefined, true) resolves
RegionLookupSettles(answer) ==
  /\ regionRun.pc = "lookup"
  /\ \E run \in {afterLookup(regionRun, clientResult("getAreaCode", TRUE, answer),
                              MsgMapNotFunction)} :
       regionRun' =
         IF run.pc # "fanout" THEN run
         ELSE \* areaCodes.map(async (area) => ...): one branch per call
              LET calls == regionCalls(run.areaCodes)
              IN  [run EXCEPT !.calls = calls,
                              !.branches = [i \in DOMAIN calls |-> Pending]]
  /\ UNCHANGED <<runtime, utilVars, clientVars, statsOp, typeRun, summary>>

\* lines 57-94: the branch of region i resolves to its RegionStats or to null
RegionBranchSettles(i, answer) ==
  /\ regionRun.pc = "fanout"
  /\ i \in DOMAIN regionRun.branches
  /\ regionRun.branches[i] = Pending
  /\ \E result \in {clientResult("getAreaBasedList", TRUE, answer)} :
       regionRun' = [regionRun EXCEPT
                       !.branches[i] =
                          Settled(regionValue(regionRun.calls[i].areaCode, result),
                                  result),
                       !.empty = IF AnsweredWithoutItems(answer) THEN @ \cup {i} ELSE @]
  /\ UNCHANGED <<runtime, utilVars, clientVars, statsOp, typeRun, summary>>

\* lines 96-124: what getRegionStats returns once Promise.all has settled
regionReturn(branches, completion) ==
  LET regionResults == promiseAll(branches, completion)
  IN  IF regionResults.state = "rejected"
      THEN Failure(regionResults.reason.message)
      ELSE \* regionStats computed once
           CHOOSE result \in
             {IF Len(regionStats) = 0
              THEN Failure(MsgAllRegionsFailed)
              ELSE Fulfilled([success |-> TRUE, data |-> SortByCount(regionStats)]) :
                regionStats \in {NotNull(regionResults.value)}} : TRUE

\* lines 96-124: Promise.all settled, its branches having settled in the
\* order completion; filter, sort, return, or the outer catch
RegionAggregate(completion) ==
  /\ regionRun.pc = "fanout"
  /\ promiseAll(regionRun.branches, completion).state # "pending"
  /\ regionRun' = [regionRun EXCEPT
                     !.pc = "done",
                     !.promise = regionReturn(regionRun.branches, completion)]
  /\ UNCHANGED <<runtime, utilVars, clientVars, statsOp, typeRun, summary>>

\* getTypeStats: await getAreaCode(undefined, true) resolves
TypeLookupSettles(answer) ==
  /\ typeRun.pc = "lookup"
  /\ \E run \in {afterLookup(typeRun, clientResult("getAreaCode", TRUE, answer),
                              MsgAllTypesFailed)} :
       typeRun' =
         IF run.pc # "fanout" THEN run
         ELSE \* one branch per call
              LET calls == typeCalls(run.areaCodes)
              IN  [run EXCEPT !.calls = calls,
                              !.branches =
                                [t \in DOMAIN calls |->
                                   [i \in DOMAIN calls[t] |-> Pending]]]
  /\ UNCHANGED <<runtime, utilVars, clientVars, statsOp, regionRun, summary>>

\* lines 153-176: the branch of type t and region i resolves to a count
TypeBranchSettles(t, i, answer) ==
  /\ typeRun.pc = "fanout"
  /\ t \in DOMAIN typeRun.branches
  /\ i \in DOMAIN typeRun.branches[t]
  /\ typeRun.branches[t][i] = Pending
  /\ \E result \in {clientResult("getAreaBasedList", TRUE, answer)} :
       typeRun' = [typeRun EXCEPT
                     !.branches[t][i] = Settled(typeCount(result), result)]
  /\ UNCHANGED <<runtime, utilVars, clientVars, statsOp, regionRun, summary>>

\* lines 178-193: the callback of a content type after its Promise.all
\* settled: its TypeStats with the sum of the counts, or null from its catch
typeValue(typeId, regionCounts) ==
  IF regionCounts.state = "rejected" THEN {}
  ELSE {[contentTypeId |-> typeId,
         contentTypeName |-> getContentTypeNameById(typeId),
         count |-> SumValues(regionCounts.value)]}

\* lines 178-216: what getTypeStats returns once the Promise.all of every
\* content type and the outer Promise.all have settled
typeReturn(branches, inner, outer) ==
  LET regionCounts == [t \in DOMAIN branches |-> promiseAll(branches[t], inner[t])]
      typeResults ==
        promiseAll([t \in DOMAIN regionCounts |->
                      Fulfilled(typeValue(TypeIds[t], regionCounts[t]))],
                   outer)
  IN  \* typeStats computed once
      CHOOSE result \in
        {IF Len(typeStats) = 0
         THEN Failure(MsgAllTypesFailed)
         ELSE Fulfilled([success |-> TRUE, data |-> SortByCount(typeStats)]) :
           typeStats \in {NotNull(typeResults.value)}} : TRUE

\* lines 178-216: every inner and the outer Promise.all settled, the
\* branches of type t in the order inner[t] and the types in the order
\* outer; sum per type, filter, sort, return
TypeAggregate(inner, outer) ==
  /\ typeRun.pc = "fanout"
  /\ \A t \in DOMAIN typeRun.branches :
       promiseAll(typeRun.branches[t], inner[t]).state # "pending"
  /\ typeRun' = [typeRun EXCEPT
                   !.pc = "done",
                   !.promise = typeReturn(typeRun.branches, inner, outer)]
  /\ UNCHANGED <<runtime, utilVars, clientVars, statsOp, regionRun, summary>>

\* getStatsSummary, lines 238-278: Promise.all of the two aggregators resolved
SummaryAggregate ==
  /\ statsOp = "getStatsSummary"
  /\ summary = Pending
  /\ regionRun.pc = "done"
  /\ typeRun.pc = "done"
  /\ LET regionResult == regionRun.promise.value
         typeResult == typeRun.promise.value
     IN  summary' =
           IF summaryFails(regionResult, typeResult)
           THEN Failure(summaryError(regionResult, typeResult))
           ELSE Fulfilled([success |-> TRUE,
                           data |-> [totalCount |-> SumCounts(typeResult.data),
                                     topRegions |-> Top3(regionResult.data),
                                     topTypes |-> Top3(typeResult.data),
                                     lastUpdated |-> "new Date()"]])
  /\ UNCHANGED <<runtime, utilVars, clientVars, statsOp, regionRun, typeRun>>

\* the orders in which the branches of each content type settle: the regions
\* answer in some order, here the same for every content type
InnerOrders(run) ==
  {[t \in DOMAIN run.branches |-> order] : order \in Orders(Len(run.areaCodes))}

\* the promise of the aggregator operation that was called
statsPromise ==
  IF statsOp = "getRegionStats" THEN regionRun.promise
  ELSE IF statsOp = "getTypeStats" THEN typeRun.promise
  ELSE IF statsOp = "getStatsSummary" THEN summary
  ELSE Pending

\* the page has taken the result of the aggregator operation
StatsReturns ==
  /\ statsPromise.state = "fulfilled"
  /\ statsOp' = "none"
  /\ regionRun' = Off
  /\ typeRun' = Off
  /\ summary' = Pending
  /\ UNCHANGED <<runtime, utilVars, clientVars>>

NextStats ==
  \/ \E o \in {"getRegionStats", "getTypeStats", "getStatsSummary"} : StartStats(o)
  \/ \E answer \in LookupAnswers : RegionLookupSettles(answer)
  \/ \E i \in DOMAIN regionRun.branches, answer \in BranchAnswers :
       RegionBranchSettles(i, answer)
  \/ \E completion \in Orders(Len(regionRun.branches)) : RegionAggregate(completion)
  \/ \E answer \in LookupAnswers : TypeLookupSettles(answer)
  \/ \E t \in DOMAIN typeRun.branches, answer \in TypeBranchAnswers :
       \E i \in DOMAIN typeRun.branches[t] : TypeBranchSettles(t, i, answer)
  \/ \E inner \in InnerOrders(typeRun), outer \in Orders(Len(typeRun.branches)) :
       TypeAggregate(inner, outer)
  \/ SummaryAggregate
  \/ StatsReturns

\* the aggregators alone
SpecStats == Init /\ [][NextStats]_vars

\* client calls and aggregator runs, one at a time
NextAll == Next \/ NextStats

SpecAll == Init /\ [][NextAll]_vars

\* a GET in flight settles: fetch rejects, or a response arrives
GetSettles ==
  \/ \E e \in RejectValues : FetchRejects(e)
  \/ \E status \in NotOkStatuses, statusText \in StatusTexts :
       RespondsNotOk(status, statusText)
  \/ \E status \in OkStatuses, body \in Bodies : RespondsOk(status, body)

\* a client call awaited by an aggregator resolves
AwaitedCallSettles ==
  \/ \E answer \in LookupAnswers : RegionLookupSettles(answer)
  \/ \E i \in DOMAIN regionRun.branches, answer \in BranchAnswers :
       RegionBranchSettles(i, answer)
  \/ \E answer \in LookupAnswers : TypeLookupSettles(answer)
  \/ \E t \in DOMAIN typeRun.branches, answer \in TypeBranchAnswers :
       \E i \in DOMAIN typeRun.branches[t] : TypeBranchSettles(t, i, answer)

\* the branches having settled in the order of the array
InOrder(n) == [k \in 1..n |-> k]

\* the continuation of a settled Promise.all runs; that it runs does not
\* depend on the order in which the branches settled
AggregatorResumes ==
  \/ RegionAggregate(InOrder(Len(regionRun.branches)))
  \/ TypeAggregate([t \in DOMAIN typeRun.branches |-> InOrder(Len(typeRun.areaCodes))],
                   InOrder(Len(typeRun.branches)))
  \/ SummaryAggregate

\* every GET that was issued settles, every timer that was set fires, and
\* the event loop runs the continuation of every settled promise; nothing is
\* assumed about when the page calls an operation or takes its result
Fairness ==
  /\ WF_vars(GetSettles)
  /\ WF_vars(TimerFires)
  /\ WF_vars(AwaitedCallSettles)
  /\ WF_vars(AggregatorResumes)

\* the server, with the key of either flag set
InitLive ==
  /\ Init
  /\ ~runtime.window
  /\ runtime.env = {"NEXT_PUBLIC_TOUR_API_KEY", "TOUR_API_KEY"}

SpecLive == InitLive /\ [][NextAll]_vars /\ Fairness

----------------------------------------------------------------------------
(* getStatsSummary on the results of its two aggregators.  The live       *)
(* upstream lists seventeen regions and the code covers eight content     *)
(* types; here the two aggregators have returned lists of up to MaxStats  *)
(* entries, sorted as lines 111 and 211 leave them; the branches that     *)
(* led to them are not kept.                                              *)

SummaryRegions == <<"a", "b", "c", "d", "e", "f">>

\* the counts of the first Len(counts) regions, as getRegionStats returns them
RegionStatsOf(counts) ==
  SortByCount([i \in DOMAIN counts |->
                 [areaCode |-> SummaryRegions[i], areaName |-> SummaryRegions[i],
                  count |-> counts[i]]])

\* the counts of the first Len(counts) content types, as getTypeStats
\* returns them
TypeStatsOf(counts) ==
  SortByCount([t \in DOMAIN counts |->
                 [contentTypeId |-> TOUR_CONTENT_TYPE_IDS[t],
                  contentTypeName |-> getContentTypeNameById(TOUR_CONTENT_TYPE_IDS[t]),
                  count |-> counts[t]]])

\* what getRegionStats can have returned: a failure, or sorted statistics
RegionResults ==
  {Failure(MsgAllRegionsFailed)}
  \cup { Fulfilled([success |-> TRUE, data |-> RegionStatsOf(counts)]) :
           counts \in UNION {[1..n -> {2, 45}] : n \in 1..MaxStats} }

\* what getTypeStats can have returned: a failure, or sorted statistics
TypeResults ==
  {Failure(MsgAllTypesFailed)}
  \cup { Fulfilled([success |-> TRUE, data |-> TypeStatsOf(counts)]) :
           counts \in UNION {[1..n -> {0, 2, 4}] : n \in 1..MaxStats} }

\* getStatsSummary was called and both aggregators have returned
InitSummary ==
  /\ runtime \in {r \in Runtimes : ~r.window /\ "TOUR_API_KEY" \in r.env}
  /\ op = "none"
  /\ isServer = FALSE
  /\ pc = "idle"
  /\ retryCount = 0
  /\ requests = <<>>
  /\ outcomes = <<>>
  /\ waits = <<>>
  /\ raised = <<>>
  /\ classified = <<>>
  /\ promise = Pending
  /\ statsOp = "getStatsSummary"
  /\ \E r \in RegionResults :
       regionRun = [Off EXCEPT !.pc = "done", !.listed = TRUE, !.promise = r]
  /\ \E r \in TypeResults :
       typeRun = [Off EXCEPT !.pc = "done", !.listed = TRUE, !.promise = r]
  /\ summary = Pending
  /\ katec = NotCalled
  /\ naver = NoLoader

NextSummary ==
  \/ SummaryAggregate
  \/ StatsReturns

SpecSummary == InitSummary /\ [][NextSummary]_vars

----------------------------------------------------------------------------
(* katecToWgs84 on the coordinate strings of a TourItem *)

RECURSIVE TextsUpTo(_)
TextsUpTo(n) ==
  IF n = 0 THEN {<<>>}
  ELSE LET shorter == TextsUpTo(n - 1)
       IN  shorter \cup {Append(q, x) : q \in {t \in shorter : Len(t) = n - 1},
                                        x \in CoordinateTokens}

RECURSIVE TextLen(_)
TextLen(text) ==
  IF text = <<>> THEN 0
  ELSE (IF Head(text) \in DigitTokens THEN DigitLen(Head(text)) ELSE 1)
         + TextLen(Tail(text))

\* mapx and mapy: strings of at most ten characters, and the numbers the
\* signature also admits
CoordinateArgs ==
  {StringArg(text) : text \in {t \in TextsUpTo(MaxTokens) : TextLen(t) <= 10}}
  \cup {NumberArg(NaN), NumberArg(Num(1270000000, 0))}

InitKatec ==
  /\ runtime \in {r \in Runtimes : r.window /\ r.env = {}}
  /\ op = "none"
  /\ isServer = FALSE
  /\ pc = "idle"
  /\ retryCount = 0
  /\ requests = <<>>
  /\ outcomes = <<>>
  /\ waits = <<>>
  /\ raised = <<>>
  /\ classified = <<>>
  /\ promise = Pending
  /\ statsOp = "none"
  /\ regionRun = Off
  /\ typeRun = Off
  /\ summary = Pending
  /\ \E mapx \in CoordinateArgs, mapy \in CoordinateArgs :
       katec = [args |-> <<mapx, mapy>>, out |-> <<>>]
  /\ naver = NoLoader

\* katecToWgs84(mapx, mapy) returns or throws
Convert ==
  /\ katec.args # <<>>
  /\ katec.out = <<>>
  /\ katec' = [katec EXCEPT !.out = <<katecToWgs84(katec.args[1], katec.args[2])>>]
  /\ UNCHANGED <<runtime, clientVars, statsVars, naver>>

SpecKatec == InitKatec /\ [][Convert]_vars

----------------------------------------------------------------------------
(* loadNaverMapsScript in a browser *)

\* the element with id "naver-maps-script" may be there before the first
\* call: components/tour-list.tsx holds a loader of its own that appends an
\* element with the same id to the same document
ScriptStates ==
  {[script |-> "none", maps |-> FALSE], [script |-> "loading", maps |-> FALSE],
   [script |-> "failed", maps |-> FALSE], [script |-> "loaded", maps |-> FALSE],
   [script |-> "loaded", maps |-> TRUE]}

InitNaver ==
  /\ runtime \in {r \in Runtimes : r.window}
  /\ op = "none"
  /\ isServer = FALSE
  /\ pc = "idle"
  /\ retryCount = 0
  /\ requests = <<>>
  /\ outcomes = <<>>
  /\ waits = <<>>
  /\ raised = <<>>
  /\ classified = <<>>
  /\ promise = Pending
  /\ statsOp = "none"
  /\ regionRun = Off
  /\ typeRun = Off
  /\ summary = Pending
  /\ katec = NotCalled
  /\ \E d \in ScriptStates :
       naver = [NoLoader EXCEPT !.script = d.script, !.maps = d.maps]

LoaderUnchanged == UNCHANGED <<runtime, clientVars, statsVars, katec>>

\* a component's effect calls loadNaverMapsScript()
Load ==
  /\ Len(naver.calls) < MaxLoads
  /\ naver' = loadNaverMapsScript(runtime.window, naver)
  /\ LoaderUnchanged

\* the load event of the script element; the script it ran has defined
\* window.naver.maps or has not yet
ScriptLoads ==
  /\ naver.script = "loading"
  /\ \E maps \in BOOLEAN :
       naver' = [onload(naver) EXCEPT !.script = "loaded", !.maps = maps]
  /\ LoaderUnchanged

\* the error event of the script element
ScriptFails ==
  /\ naver.script = "loading"
  /\ naver' = [onerror(naver) EXCEPT !.script = "failed"]
  /\ LoaderUnchanged

\* the loaded script defines window.naver.maps
MapsDefined ==
  /\ naver.script = "loaded"
  /\ ~naver.maps
  /\ naver' = [naver EXCEPT !.maps = TRUE]
  /\ LoaderUnchanged

\* a tick of an interval; one that does not find window.naver.maps changes
\* nothing
CheckNaver(k) ==
  /\ naver.attempts[k].checkNaver
  /\ naver.maps
  /\ naver' = [naver EXCEPT !.attempts[k] = checkNaver(@)]
  /\ LoaderUnchanged

\* a ten-second timer fires
Timeout(k) ==
  /\ naver.attempts[k].timeout
  /\ naver' = [naver EXCEPT !.attempts[k] = timeout(@, naver.maps)]
  /\ LoaderUnchanged

NextNaver ==
  \/ Load
  \/ ScriptLoads
  \/ ScriptFails
  \/ MapsDefined
  \/ \E k \in DOMAIN naver.attempts : CheckNaver(k)
  \/ \E k \in DOMAIN naver.attempts : Timeout(k)

SpecNaver == InitNaver /\ [][NextNaver]_vars

----------------------------------------------------------------------------
(* properties *)

Last(q) == q[Len(q)]

IsTransport(o) == o.kind = "reject" /\ o.error \in TransportErrors
IsStatus(o, statuses) == o.kind = "status" /\ o.status \in statuses
IsUnparsable(o) == o.kind = "ok" /\ ~o.body.json
IsErrorEnvelope(o) ==
  /\ o.kind = "ok"
  /\ o.body.json
  /\ ~o.body.data.isNull /\ o.body.data.hasResponse /\ o.body.data.hasHeader
  /\ o.body.data.resultCode # "0000"

Failed == pc = "done" /\ promise.state = "fulfilled" /\ ~promise.value.success

\* C1: when every GET of a call is answered with status 503, the call makes
\* exactly maxRetries + 1 = 4 GETs and only then fails.
C1_Always503MakesFourAttempts ==
  (/\ pc = "done"
   /\ outcomes # <<>>
   /\ \A i \in DOMAIN outcomes : IsStatus(outcomes[i], {503}))
  => Len(requests) = maxRetries + 1

\* C2: a GET answered with a 4xx status is the only GET of its call: the call
\* fails at once, with no wait and no retry.
C2_ClientErrorNotRetried ==
  (outcomes # <<>> /\ IsStatus(outcomes[1], 400..499))
  => /\ Len(requests) = 1
     /\ waits = <<>>
     /\ raised # <<>>
     /\ Failed

C2_Witness ==
  /\ pc = "done"
  /\ Len(outcomes) = 1
  /\ IsStatus(outcomes[1], {404})
  /\ Len(requests) = 1

\* C3: transport failures are retried up to the bound: a call fails on a
\* transport failure only at its GET number maxRetries + 1 (so a call whose
\* GETs all fail at transport level makes exactly 4); a call whose attempts
\* before k failed at transport level and whose attempt k carries a payload
\* returns what that payload normalizes to; no call makes more than
\* maxRetries + 1 GETs.
C3_TransportFailuresRetried ==
  /\ (pc = "done" /\ outcomes # <<>> /\ IsTransport(Last(outcomes)))
     => (Len(requests) = maxRetries + 1 /\ Failed)
  /\ (/\ pc = "done"
      /\ outcomes # <<>>
      /\ \A i \in 1..(Len(outcomes) - 1) : IsTransport(outcomes[i])
      /\ Last(outcomes).kind = "ok"
      /\ Last(outcomes).body.json)
     => promise = clientParse(op, Last(outcomes).body.data)
  /\ Len(requests) <= maxRetries + 1

\* C4: a 2xx response whose body does not parse as JSON, or whose envelope
\* has a resultCode other than "0000", is never followed by another GET: the
\* call ends there with a failure result, after exactly one GET when it was
\* the answer to the first.
C4_NonTransientNotRetried ==
  \A i \in DOMAIN outcomes :
    (IsUnparsable(outcomes[i]) \/ IsErrorEnvelope(outcomes[i]))
    => (i = Len(requests) /\ Failed)

\* C5: the wait before the retry that follows attempt n is
\* min(1000 * 2^n, 10000) ms: the waits of one call are 1000, 2000, 4000, they
\* never decrease, and no wait exceeds 10000 for any n.
ExpectedWaits == <<1000, 2000, 4000>>

C5_BackoffDelays ==
  /\ Len(waits) <= Len(ExpectedWaits)
  /\ \A i \in DOMAIN waits : waits[i] = ExpectedWaits[i]
  /\ \A n \in 0..MaxExp :
       /\ getDelayMs(n) <= 10000
       /\ getDelayMs(n) <= getDelayMs(n + 1)
       /\ getDelayMs(n) = IF n <= 3 THEN 1000 * Pow2(n) ELSE 10000

C5_Witness ==
  /\ pc = "done"
  /\ waits = ExpectedWaits

\* C6: when the call finally fails on a non-2xx status s, the error that
\* fetchWithRetry raises carries errorType "api" and statusCode s.
C6_RaisedErrorAnnotated ==
  (pc = "done" /\ raised # <<>> /\ IsStatus(Last(outcomes), NotOkStatuses))
  => /\ raised[1].errorType = "api"
     /\ raised[1].statusCode = {Last(outcomes).status}

\* C7: a client operation never rejects: whatever the outcome (missing or
\* inaccessible key, transport failure, non-2xx status, unparsable body,
\* envelope without response, header or body, retries exhausted), its promise
\* resolves, and for these outcomes to a failure result.
C7_NeverRejects ==
  /\ promise.state # "rejected"
  /\ pc = "done" => promise.state = "fulfilled"
  /\ (/\ pc = "done"
      /\ \/ requests = <<>>
         \/ Last(outcomes).kind \in {"reject", "status"}
         \/ IsUnparsable(Last(outcomes))
         \/ /\ Last(outcomes).kind = "ok"
            /\ Last(outcomes).body.json
            /\ LET d == Last(outcomes).body.data
               IN  d.isNull \/ ~d.hasResponse \/ ~d.hasHeader \/ ~d.hasBody)
     => ~promise.value.success

C7_Witness ==
  /\ pc = "done"
  /\ Len(outcomes) = 1
  /\ outcomes[1].kind = "ok"
  /\ outcomes[1].body.json
  /\ ~outcomes[1].body.data.hasResponse
  /\ promise.state = "fulfilled"
  /\ ~promise.value.success

\* C9: classifyError applies its rules in order and is total: a transport
\* failure is "network"; the error of a non-2xx response is "api" with the
\* status extracted and the sentence of the status table (seven distinct
\* sentences for 400, 401, 403, 404, 429, 500, 503, the generic one
\* otherwise); a JSON parse failure is "parse"; anything else is "unknown"
\* with the raw description, or the generic fallback when it has none.
ExpectedSentence(s) ==
  CASE s = 400 -> Msg400
    [] s = 401 -> Msg401
    [] s = 403 -> Msg403
    [] s = 404 -> Msg404
    [] s = 429 -> Msg429
    [] s = 500 -> Msg500
    [] s = 503 -> Msg503
    [] OTHER -> MsgServerError

MappedStatuses == {400, 401, 403, 404, 429, 500, 503}

C9_ClassifierRules ==
  /\ \A s, t \in MappedStatuses :
       s # t => ExpectedSentence(s) # ExpectedSentence(t)
  /\ \A i \in DOMAIN classified :
       LET e == classified[i].error
           info == classified[i].errorInfo
       IN  IF e \in TransportErrors
           THEN info.type = "network"
           ELSE IF \E s \in NotOkStatuses, t \in StatusTexts : e = httpError(s, t)
           THEN /\ info.type = "api"
                /\ info.statusCode = {Last(outcomes).status}
                /\ info.message = ExpectedSentence(Last(outcomes).status)
           ELSE IF e.cls = "SyntaxError"
           THEN info.type = "parse"
           ELSE /\ info.type = "unknown"
                /\ info.message = IF e.cls = "other" THEN MsgUnknown ELSE e.message

\* C10: when the call finally fails on a non-2xx status s, the failure result
\* of the client operation carries the sentence the status table assigns to s
\* (the generic server-error sentence for an unmapped s), not the raw
\* "HTTP s: statusText" text.
C10_FailureCarriesStatusSentence ==
  (pc = "done" /\ outcomes # <<>> /\ IsStatus(Last(outcomes), NotOkStatuses))
  => /\ Failed
     /\ promise.value.error = ExpectedSentence(Last(outcomes).status)
     /\ ~includes(promise.value.error, "HTTP")

C10_Witness ==
  /\ pc = "done"
  /\ outcomes # <<>>
  /\ IsStatus(Last(outcomes), {404})
  /\ promise.state = "fulfilled"
  /\ promise.value.error = Msg404

\* the result of a finished client call is the one clientResult computes
\* from the answer to its last GET
ClientResultAgrees ==
  (pc = "done" /\ outcomes # <<>>)
  => promise = Fulfilled(clientResult(op, isServer, Last(outcomes)))

\* C8: every result of a client operation or of an aggregator is exactly one
\* of the two variants: a success carries data and no error message, a
\* failure carries a non-empty error message and no data.
IsApiResult(r) ==
  IF r.success
  THEN "data" \in DOMAIN r /\ "error" \notin DOMAIN r
  ELSE "error" \in DOMAIN r /\ r.error # <<>> /\ "data" \notin DOMAIN r

ResolvesToApiResult(p) == p.state = "fulfilled" => IsApiResult(p.value)

C8_ResultIsOneVariant ==
  /\ ResolvesToApiResult(promise)
  /\ ResolvesToApiResult(regionRun.promise)
  /\ ResolvesToApiResult(typeRun.promise)
  /\ ResolvesToApiResult(summary)

C8_Witness ==
  /\ summary.state = "fulfilled"
  /\ summary.value.success
  /\ regionRun.promise.value.success
  /\ typeRun.promise.value.success

----------------------------------------------------------------------------
(* properties of parseApiResponse *)

\* the envelope has response.header
HasHeader(d) == ~d.isNull /\ d.hasResponse /\ d.hasHeader

\* the envelope has resultCode "0000" and a body
IsDataEnvelope(d) == HasHeader(d) /\ d.resultCode = "0000" /\ d.hasBody

\* the last GET of the finished call was answered with a JSON envelope
AnsweredWithJson ==
  /\ pc = "done"
  /\ outcomes # <<>>
  /\ Last(outcomes).kind = "ok"
  /\ Last(outcomes).body.json

\* C11: an envelope whose resultCode is not "0000" gives a failure carrying
\* the raw resultCode as code; for "01".."05" the message is the curated
\* sentence of the code ("05": the quota sentence) whatever resultMsg says,
\* for any other code it is resultMsg, or the generic sentence when resultMsg
\* is empty.
CuratedSentence(code, resultMsg) ==
  CASE code = "01" -> MsgCode01
    [] code = "02" -> MsgCode02
    [] code = "03" -> MsgCode03
    [] code = "04" -> MsgCode04
    [] code = "05" -> MsgCode05
    [] OTHER -> IF resultMsg = <<>> THEN MsgApiCallFailed ELSE resultMsg

ErrorEnvelopeFailure(d) ==
  [success |-> FALSE,
   error |-> CuratedSentence(d.resultCode, d.resultMsg),
   code |-> d.resultCode]

C11_ErrorEnvelopeFailure ==
  (AnsweredWithJson /\ IsErrorEnvelope(Last(outcomes)))
  => /\ parseApiResponse(Last(outcomes).body.data)
          = Return(ErrorEnvelopeFailure(Last(outcomes).body.data))
     /\ promise = Fulfilled(ErrorEnvelopeFailure(Last(outcomes).body.data))

C11_Witness ==
  /\ AnsweredWithJson
  /\ Last(outcomes).body.data.resultCode = "05"
  /\ Last(outcomes).body.data.resultMsg = <<"SERVICE ERROR">>
  /\ promise = Fulfilled([success |-> FALSE, error |-> MsgCode05, code |-> "05"])

\* C12: for a "0000" envelope, absence and emptiness differ: when items, or
\* items.item, is absent the result is a failure with the no-data sentence;
\* when items.item is an empty array the result is a success whose data is
\* the empty list.
EmptyList == [kind |-> "array", v |-> <<>>]

NormalizedAbsentOrEmpty(d) ==
  IF d.items = EmptyList
  THEN [success |-> TRUE, data |-> EmptyList, totalCount |-> d.totalCount]
  ELSE [success |-> FALSE, error |-> MsgNoData]

C12_AbsentDiffersFromEmpty ==
  (/\ AnsweredWithJson
   /\ IsDataEnvelope(Last(outcomes).body.data)
   /\ \/ Last(outcomes).body.data.items = EmptyList
      \/ Last(outcomes).body.data.items.kind \in {"absent", "noItem"})
  => /\ parseApiResponse(Last(outcomes).body.data)
          = Return(NormalizedAbsentOrEmpty(Last(outcomes).body.data))
     /\ promise = Fulfilled(NormalizedAbsentOrEmpty(Last(outcomes).body.data))

C12_Witness ==
  /\ AnsweredWithJson
  /\ IsDataEnvelope(Last(outcomes).body.data)
  /\ Last(outcomes).body.data.items = EmptyList
  /\ promise.state = "fulfilled"
  /\ promise.value.success
  /\ promise.value.data.v = <<>>

\* C13: the result does not depend on how a single item is encoded: a "0000"
\* envelope whose items.item is the single object x gives the same result
\* (success, data, totalCount) as the same envelope with items.item = [x].
WrappedAsArray(d) == [d EXCEPT !.items = [kind |-> "array", v |-> <<d.items.obj>>]]

C13_SingleItemEncodingIrrelevant ==
  (/\ AnsweredWithJson
   /\ IsDataEnvelope(Last(outcomes).body.data)
   /\ Last(outcomes).body.data.items.kind = "object")
  => promise = clientParse(op, WrappedAsArray(Last(outcomes).body.data))

\* C14: a "0000" envelope whose items.item is an array gives success with
\* data equal to that array, same items in the same order, and totalCount
\* equal to the body's totalCount, not to the number of items of the page:
\* 2 items with totalCount 45 give data of length 2 and totalCount 45.
ArraySuccess(d) ==
  [success |-> TRUE, data |-> d.items, totalCount |-> d.totalCount]

C14_ArrayPassedThroughWithTotal ==
  (/\ AnsweredWithJson
   /\ IsDataEnvelope(Last(outcomes).body.data)
   /\ Last(outcomes).body.data.items.kind = "array")
  => /\ parseApiResponse(Last(outcomes).body.data)
          = Return(ArraySuccess(Last(outcomes).body.data))
     /\ promise = Fulfilled(ArraySuccess(Last(outcomes).body.data))

C14_Witness ==
  /\ AnsweredWithJson
  /\ op = "getAreaBasedList"
  /\ IsDataEnvelope(Last(outcomes).body.data)
  /\ Last(outcomes).body.data.items = [kind |-> "array", v |-> <<"a", "b">>]
  /\ Last(outcomes).body.data.totalCount = {45}
  /\ promise.state = "fulfilled"
  /\ promise.value.success
  /\ promise.value.data.v = <<"a", "b">>
  /\ promise.value.totalCount = {45}

\* C15: the credential flag alone decides the key of a request: every GET of
\* a call made with isServer = true carries the value of TOUR_API_KEY, every
\* GET of a call made with isServer = false carries the value of
\* NEXT_PUBLIC_TOUR_API_KEY, and the value of TOUR_API_KEY is in no GET of a
\* call made with isServer = false, first attempt or retry.
ValueOf(key) == <<"value of ", key>>

C15_FlagDecidesKey ==
  \A i \in DOMAIN requests :
    /\ isServer => requests[i].serviceKey = ValueOf("TOUR_API_KEY")
    /\ ~isServer => requests[i].serviceKey = ValueOf("NEXT_PUBLIC_TOUR_API_KEY")
    /\ ~isServer => requests[i].serviceKey # ValueOf("TOUR_API_KEY")

----------------------------------------------------------------------------
(* properties of the aggregators *)

\* the run fetched its region list and has returned
Aggregated(run) == run.pc = "done" /\ run.listed

\* the branches whose listing call failed, the others carrying a totalCount
FailedCalls(branches) == {i \in DOMAIN branches : ~branches[i].call.success}

UpstreamCount(branch) == CHOOSE n \in branch.call.totalCount : TRUE

\* C16: with n regions listed and k of the n listing calls failed,
\* getRegionStats returns failure if and only if k = n, and otherwise success
\* with exactly n - k entries, one for each surviving region, carrying that
\* region's upstream totalCount.
C16_RegionPartialFailure ==
  Aggregated(regionRun)
  => LET n == Len(regionRun.areaCodes)
         failed == FailedCalls(regionRun.branches)
         k == Cardinality(failed)
         r == regionRun.promise.value
     IN  /\ r.success <=> k < n
         /\ r.success
            => /\ Len(r.data) = n - k
               /\ \A i \in DOMAIN regionRun.branches \ failed :
                    \E j \in DOMAIN r.data :
                      /\ r.data[j].areaCode = regionRun.areaCodes[i]
                      /\ r.data[j].count = UpstreamCount(regionRun.branches[i])

C16_Witness ==
  /\ Aggregated(regionRun)
  /\ Len(regionRun.areaCodes) = 2
  /\ Cardinality(FailedCalls(regionRun.branches)) = 1
  /\ regionRun.promise.value.success
  /\ Len(regionRun.promise.value.data) = 1

\* C17: every successful result of getRegionStats and of getTypeStats is
\* sorted by count, descending, and entries with equal counts keep the order
\* of the enumeration: the region list, the fixed category order.
PositionIn(list, x) == CHOOSE i \in DOMAIN list : list[i] = x

\* position[j] is the place of entry j in the enumeration
SortedStable(data, position) ==
  \A j, k \in DOMAIN data :
    j < k => /\ data[j].count >= data[k].count
             /\ data[j].count = data[k].count => position[j] < position[k]

RegionPosition(entry) == PositionIn(regionRun.areaCodes, entry.areaCode)
TypePosition(entry) == PositionIn(TypeIds, entry.contentTypeId)

Succeeded(run) == run.promise.state = "fulfilled" /\ run.promise.value.success

C17_SortedDescendingStable ==
  /\ Succeeded(regionRun)
     => LET data == regionRun.promise.value.data
        IN  SortedStable(data, [j \in DOMAIN data |-> RegionPosition(data[j])])
  /\ Succeeded(typeRun)
     => LET data == typeRun.promise.value.data
        IN  SortedStable(data, [j \in DOMAIN data |-> TypePosition(data[j])])

C17_Witness ==
  /\ Succeeded(regionRun)
  /\ Len(regionRun.promise.value.data) = 2
  /\ regionRun.promise.value.data[1].areaCode = regionRun.areaCodes[2]
  /\ Succeeded(typeRun)
  /\ Len(typeRun.promise.value.data) = 2
  /\ typeRun.promise.value.data[1].count = 4
  /\ typeRun.promise.value.data[2].count = 4

\* C18: in getTypeStats the count of a category is the sum of the upstream
\* totalCount over exactly the regions whose listing call for that category
\* succeeded; a failed call adds 0, does not abort the category and changes
\* no other category's count.
RECURSIVE SumOfSucceeded(_)
SumOfSucceeded(branches) ==
  IF branches = <<>> THEN 0
  ELSE (IF Head(branches).call.success THEN UpstreamCount(Head(branches)) ELSE 0)
       + SumOfSucceeded(Tail(branches))

C18_TypeCountSumsSucceeded ==
  Aggregated(typeRun)
  => /\ typeRun.promise.value.success
     /\ \A j \in DOMAIN typeRun.promise.value.data :
          LET entry == typeRun.promise.value.data[j]
              t == TypePosition(entry)
          IN  entry.count = SumOfSucceeded(typeRun.branches[t])
     /\ \A t \in DOMAIN TypeIds :
          FailedCalls(typeRun.branches[t]) # DOMAIN typeRun.branches[t]
          => \E j \in DOMAIN typeRun.promise.value.data :
               typeRun.promise.value.data[j].contentTypeId = TypeIds[t]

C18_Witness ==
  /\ Aggregated(typeRun)
  /\ Len(typeRun.areaCodes) = 2
  /\ \E t \in DOMAIN TypeIds :
       /\ Cardinality(FailedCalls(typeRun.branches[t])) = 1
       /\ \E j \in DOMAIN typeRun.promise.value.data :
            /\ typeRun.promise.value.data[j].contentTypeId = TypeIds[t]
            /\ typeRun.promise.value.data[j].count = 2
  /\ \E t \in DOMAIN TypeIds :
       /\ FailedCalls(typeRun.branches[t]) = {}
       /\ \E j \in DOMAIN typeRun.promise.value.data :
            /\ typeRun.promise.value.data[j].contentTypeId = TypeIds[t]
            /\ typeRun.promise.value.data[j].count = 4

\* C19: in getTypeStats a category whose listing calls all failed is dropped
\* from the result, it does not appear with count 0, and getTypeStats returns
\* failure when this holds for every category.
AllCallsFailed(branches) ==
  branches # <<>> /\ FailedCalls(branches) = DOMAIN branches

C19_FailedCategoryDropped ==
  Aggregated(typeRun)
  => /\ \A t \in DOMAIN TypeIds :
          (AllCallsFailed(typeRun.branches[t]) /\ typeRun.promise.value.success)
          => \A j \in DOMAIN typeRun.promise.value.data :
               typeRun.promise.value.data[j].contentTypeId # TypeIds[t]
     /\ (\A t \in DOMAIN TypeIds : AllCallsFailed(typeRun.branches[t]))
        => ~typeRun.promise.value.success

\* C20: getStatsSummary returns failure if and only if getRegionStats or
\* getTypeStats returned failure, with the message of the region statistics
\* when these failed and the message of the type statistics otherwise; failed
\* branches that leave both aggregators successful never make it fail.
C20_SummaryFailsOnlyWithAnAggregator ==
  summary.state = "fulfilled"
  => LET regionResult == regionRun.promise.value
         typeResult == typeRun.promise.value
     IN  /\ ~summary.value.success
            <=> (~regionResult.success \/ ~typeResult.success)
         /\ ~regionResult.success => summary.value.error = regionResult.error
         /\ (regionResult.success /\ ~typeResult.success)
            => summary.value.error = typeResult.error
         /\ (/\ Aggregated(regionRun)
             /\ Aggregated(typeRun)
             /\ FailedCalls(regionRun.branches) # DOMAIN regionRun.branches
             /\ \E t \in DOMAIN TypeIds :
                  FailedCalls(typeRun.branches[t]) # DOMAIN typeRun.branches[t])
            => summary.value.success

C20_Witness ==
  /\ summary.state = "fulfilled"
  /\ summary.value.success
  /\ FailedCalls(regionRun.branches) # {}
  /\ \E t \in DOMAIN TypeIds : FailedCalls(typeRun.branches[t]) # {}

----------------------------------------------------------------------------
(* properties of getStatsSummary *)

SummarySucceeded ==
  /\ statsOp = "getStatsSummary"
  /\ summary.state = "fulfilled"
  /\ summary.value.success

\* the sum of the counts of a list of statistics
CountSum(list) ==
  LET sum[k \in 0..Len(list)] == IF k = 0 THEN 0 ELSE sum[k - 1] + list[k].count
  IN  sum[Len(list)]

\* top is the first min(3, n) entries of list, and none of the entries left
\* out has a larger count than one that is in
TopOf(top, list) ==
  /\ Len(top) = Min(3, Len(list))
  /\ \A k \in 1..Len(top) : top[k] = list[k]
  /\ \A j \in (Len(top) + 1)..Len(list), k \in 1..Len(top) :
       list[j].count <= top[k].count

\* C21: when getStatsSummary succeeds, its totalCount is the sum of the
\* counts of every category getTypeStats returned, and topRegions and
\* topTypes are the first min(3, n) entries of the sorted lists of
\* getRegionStats and getTypeStats, so that no entry left out has a larger
\* count than an entry that is in.
C21_SummaryTotalsAndTops ==
  SummarySucceeded =>
    LET regionStats == regionRun.promise.value.data
        typeStats == typeRun.promise.value.data
        data == summary.value.data
    IN  /\ data.totalCount = CountSum(typeStats)
        /\ TopOf(data.topRegions, regionStats)
        /\ TopOf(data.topTypes, typeStats)

\* C21: a summary of more than three regions and more than three categories
\* whose counts differ: an entry left out is smaller than one that is in,
\* and the total is neither the sum over the regions nor over the top three
C21_Witness ==
  /\ SummarySucceeded
  /\ LET regionStats == regionRun.promise.value.data
         typeStats == typeRun.promise.value.data
         data == summary.value.data
     IN  /\ Len(regionStats) > 3
         /\ Len(typeStats) > 3
         /\ regionStats[4].count < regionStats[3].count
         /\ typeStats[4].count < typeStats[3].count
         /\ typeStats[4].count > 0
         /\ data.totalCount # CountSum(regionStats)
         /\ data.totalCount # CountSum(data.topTypes)

----------------------------------------------------------------------------
(* properties of the fan-outs *)

\* the branches of a run of getTypeStats, as one sequence
RECURSIVE Flat(_)
Flat(rows) == IF rows = <<>> THEN <<>> ELSE Head(rows) \o Flat(Tail(rows))

\* the branches of run are one per region, or one per content type and region
OnePerRegion(run, perType) ==
  IF perType
  THEN /\ DOMAIN run.branches = DOMAIN TypeIds
       /\ \A t \in DOMAIN run.branches : DOMAIN run.branches[t] = DOMAIN run.areaCodes
  ELSE DOMAIN run.branches = DOMAIN run.areaCodes

HasPending(branches) == \E i \in DOMAIN branches : branches[i].state = "pending"

HasFailed(branches) ==
  \E i \in DOMAIN branches : branches[i].state # "pending" /\ ~branches[i].call.success

C23_HungBranchBlocksTheRun ==
  (regionRun.listed /\ HasPending(regionRun.branches)) =>
    /\ regionRun.promise = Pending
    /\ statsOp = "getStatsSummary" => summary = Pending

\* C23: within getStatsSummary one region branch is pending, every other
\* branch has settled and getTypeStats has returned
C23_Witness ==
  /\ statsOp = "getStatsSummary"
  /\ regionRun.pc = "fanout"
  /\ Len(regionRun.branches) > 1
  /\ Cardinality({i \in DOMAIN regionRun.branches :
                    regionRun.branches[i].state = "pending"}) = 1
  /\ typeRun.pc = "done"
  /\ typeRun.promise.value.success
  /\ summary = Pending

\* C25: a run of getTypeStats over C content types and R regions issues
\* exactly one listing call per pair of a content type and a region, C x R
\* in all, each with numOfRows = 1 and pageNo = 1 and none waiting for
\* another: from the moment the region list is there all of them are issued,
\* whichever branches are still pending.  getRegionStats issues one such
\* call per region, without a content type.
C25_OneCallPerPair ==
  /\ typeRun.listed =>
       /\ DOMAIN typeRun.calls = DOMAIN TypeIds
       /\ \A t \in DOMAIN typeRun.calls :
            /\ DOMAIN typeRun.calls[t] = DOMAIN typeRun.areaCodes
            /\ \A i \in DOMAIN typeRun.calls[t] :
                 typeRun.calls[t][i] =
                   [areaCode |-> typeRun.areaCodes[i], contentTypeId |-> {TypeIds[t]},
                    numOfRows |-> 1, pageNo |-> 1, isServer |-> TRUE]
       /\ Len(Flat(typeRun.calls)) = Len(TypeIds) * Len(typeRun.areaCodes)
       /\ Len(Flat(typeRun.branches)) = Len(Flat(typeRun.calls))
  /\ regionRun.listed =>
       /\ DOMAIN regionRun.calls = DOMAIN regionRun.areaCodes
       /\ \A i \in DOMAIN regionRun.calls :
            regionRun.calls[i] =
              [areaCode |-> regionRun.areaCodes[i], contentTypeId |-> {},
               numOfRows |-> 1, pageNo |-> 1, isServer |-> TRUE]
       /\ Len(regionRun.branches) = Len(regionRun.calls)

\* C25: every call of a run over two content types and two regions is in
\* flight at once, and so is every call of a run of getRegionStats
C25_Witness ==
  /\ typeRun.pc = "fanout"
  /\ Len(typeRun.areaCodes) = 2
  /\ Len(Flat(typeRun.calls)) = 2 * NumTypes
  /\ \A i \in DOMAIN Flat(typeRun.branches) : Flat(typeRun.branches)[i] = Pending
  /\ regionRun.pc = "fanout"
  /\ Len(regionRun.calls) = 2
  /\ \A i \in DOMAIN regionRun.branches : regionRun.branches[i] = Pending

\* C26: the result of an aggregator depends on the outcomes of its branches
\* only and not on the order in which they completed: whatever that order,
\* the same outcomes give the list the run returned, in the same order, ties
\* included.
C26_CompletionOrderIrrelevant ==
  /\ Aggregated(regionRun) =>
       \A completion \in Orders(Len(regionRun.branches)) :
         regionReturn(regionRun.branches, completion) = regionRun.promise
  /\ Aggregated(typeRun) =>
       \A inner \in [DOMAIN typeRun.branches -> Orders(Len(typeRun.areaCodes))],
          outer \in Orders(Len(typeRun.branches)) :
         typeReturn(typeRun.branches, inner, outer) = typeRun.promise

\* C26: both aggregators have returned a list with a tie between entries
\* whose branches could have completed in either order
C26_Witness ==
  /\ Aggregated(regionRun) /\ Aggregated(typeRun)
  /\ regionRun.promise.value.success /\ typeRun.promise.value.success
  /\ LET regionStats == regionRun.promise.value.data
         typeStats == typeRun.promise.value.data
     IN  /\ Len(regionStats) = 2 /\ regionStats[1].count = regionStats[2].count
         /\ Len(typeStats) >= 2 /\ typeStats[1].count = typeStats[2].count
         /\ typeStats[1].count > 0

\* the region-list lookup of run has failed
LookupFailed(run) == run.lookup # <<>> /\ ~run.lookup[1].success

\* no listing call without a successful lookup before it in the same run,
\* and after a failed lookup none, the failure being that of the lookup
LookupFirst(run) ==
  /\ run.calls # <<>> => (run.lookup # <<>> /\ run.lookup[1].success)
  /\ LookupFailed(run) =>
       /\ run.calls = <<>>
       /\ run.branches = <<>>
       /\ run.promise = Failure(run.lookup[1].error)

\* C28: when the region-list lookup of an aggregator fails, the aggregator
\* issues no listing call and returns a failure carrying the error message
\* of the lookup; a listing call is issued only after a lookup that
\* succeeded in the same run.
C28_NoListingAfterFailedLookup ==
  LookupFirst(regionRun) /\ LookupFirst(typeRun)

\* C28: within one getStatsSummary the lookup of getRegionStats has failed
\* and that of getTypeStats has succeeded and its listing calls are issued
C28_Witness ==
  /\ statsOp = "getStatsSummary"
  /\ LookupFailed(regionRun)
  /\ regionRun.promise = Failure(MsgNetwork)
  /\ typeRun.lookup # <<>>
  /\ typeRun.lookup[1].success
  /\ typeRun.calls # <<>>

\* the areaCodes of the entries of a list of RegionStats
AreaCodesOf(data) == {data[j].areaCode : j \in DOMAIN data}

\* C29: a listing call answered "0000" without items (a region with no
\* places, totalCount 0) is handled like a failed branch: its callback in
\* getRegionStats returns null, so the region is left out of the result and,
\* if it is so for every region, getRegionStats returns a failure; in
\* getTypeStats it contributes 0 to the sum of its content type.
C29_NoItemsLikeFailure ==
  /\ \A i \in regionRun.empty :
       /\ regionRun.branches[i].value = {}
       /\ ~regionRun.branches[i].call.success
  /\ Aggregated(regionRun) =>
       IF regionRun.promise.value.success
       THEN \A i \in regionRun.empty :
              regionRun.areaCodes[i] \notin AreaCodesOf(regionRun.promise.value.data)
       ELSE regionRun.empty = DOMAIN regionRun.branches =>
              regionRun.promise = Failure(MsgAllRegionsFailed)
  /\ \A answer \in {a \in TypeBranchAnswers : AnsweredWithoutItems(a)} :
       typeCount(clientResult("getAreaBasedList", TRUE, answer)) = 0

\* C29: getRegionStats has returned the one region that has places; the
\* other was answered without items
C29_Witness ==
  /\ Aggregated(regionRun)
  /\ Len(regionRun.branches) = 2
  /\ regionRun.empty = {1}
  /\ regionRun.promise.value.success
  /\ AreaCodesOf(regionRun.promise.value.data) = {regionRun.areaCodes[2]}

----------------------------------------------------------------------------
(* properties of katecToWgs84 *)

RECURSIVE DropTrailingBlanks(_)
DropTrailingBlanks(text) ==
  IF text # <<>> /\ text[Len(text)] = " "
  THEN DropTrailingBlanks(SubSeq(text, 1, Len(text) - 1))
  ELSE text

\* text without its sign and the blanks around it
Unsigned(text) ==
  LET trimmed == DropTrailingBlanks(skipBlanks(text))
  IN  IF trimmed # <<>> /\ Head(trimmed) = "-" THEN Tail(trimmed) ELSE trimmed

\* the whole of text is a decimal number: digits with at most one decimal
\* point among them, after an optional sign, blanks around it allowed
IsNumericText(text) ==
  LET body == Unsigned(text)
      points == {i \in DOMAIN body : body[i] = "."}
  IN  /\ Cardinality(points) <= 1
      /\ \A i \in DOMAIN body \ points : body[i] \in DigitTokens
      /\ DOMAIN body # points

IsNumericArg(arg) ==
  IF arg.type = "string" THEN IsNumericText(arg.text) ELSE ~arg.value.nan

\* the number a numeric text spells
NumericValue(text) ==
  LET body == Unsigned(text)
      negative == Unsigned(text) # DropTrailingBlanks(skipBlanks(text))
      points == {i \in DOMAIN body : body[i] = "."}
      point == IF points = {} THEN Len(body) + 1 ELSE CHOOSE i \in points : TRUE
      int == SubSeq(body, 1, point - 1)
      frac == SubSeq(body, point + 1, Len(body))
      magnitude == runValue(int) * Pow10(runLen(frac)) + runValue(frac)
  IN  Num(IF negative THEN 0 - magnitude ELSE magnitude, runLen(frac))

ArgValue(arg) == IF arg.type = "string" THEN NumericValue(arg.text) ELSE arg.value

\* C24: katecToWgs84 returns {lng: x / 10^7, lat: y / 10^7} when both of its
\* arguments are numeric and throws when either is not: it returns no pair
\* for a string that is not a number, and no pair with a NaN.
C24_NumericOrThrows ==
  katec.out # <<>> =>
    LET mapx == katec.args[1]
        mapy == katec.args[2]
        out == katec.out[1]
    IN  IF IsNumericArg(mapx) /\ IsNumericArg(mapy)
        THEN out = Return([lng |-> DividedByPow10(ArgValue(mapx), 7),
                           lat |-> DividedByPow10(ArgValue(mapy), 7)])
        ELSE out.threw

\* the part of C24 that holds: numeric arguments are divided by 10^7, a
\* string without a leading number throws, and no NaN is returned
NumericPrefixOrThrows ==
  katec.out # <<>> =>
    LET mapx == katec.args[1]
        mapy == katec.args[2]
        out == katec.out[1]
    IN  /\ (IsNumericArg(mapx) /\ IsNumericArg(mapy)) =>
             out = Return([lng |-> DividedByPow10(ArgValue(mapx), 7),
                           lat |-> DividedByPow10(ArgValue(mapy), 7)])
        /\ ~out.threw => ~out.value.lng.nan /\ ~out.value.lat.nan
        /\ \A arg \in {mapx, mapy} :
             (arg.type = "string" /\ digitRun(Unsigned(arg.text)) = <<>>
                /\ (Unsigned(arg.text) = <<>> \/ Head(Unsigned(arg.text)) # "."
                      \/ digitRun(Tail(Unsigned(arg.text))) = <<>>))
               => out.threw

\* the example of the documentation: ("1270000000", "370000000")
KatecExample ==
  /\ katec.args = <<StringArg(<<"127", "0000000">>), StringArg(<<"127", "0000000">>)>>
  /\ katec.out = <<Return([lng |-> Num(127, 0), lat |-> Num(127, 0)])>>

----------------------------------------------------------------------------
(* termination *)

\* the page has called a client operation or an aggregator, one at a time
OperationCalled == op # "none" \/ statsOp # "none"

\* the promise of the operation that was called is fulfilled
OperationReturned ==
  \/ op # "none" /\ promise.state = "fulfilled"
  \/ statsOp # "none" /\ statsPromise.state = "fulfilled"

\* C27: provided every GET that is issued settles, a call of fetchWithRetry
\* returns or raises after at most maxRetries + 1 attempts, so every client
\* operation returns, and so does every aggregator, getStatsSummary included.
C27_EveryOperationReturns ==
  /\ [](Len(requests) <= maxRetries + 1)
  /\ [](op = "none" \/ statsOp = "none")
  /\ OperationCalled ~> OperationReturned

\* C27: a client operation has returned after maxRetries + 1 attempts
C27_Witness ==
  /\ pc = "done"
  /\ Len(requests) = maxRetries + 1
  /\ promise.state = "fulfilled"

----------------------------------------------------------------------------
(* properties of loadNaverMapsScript *)

\* the calls that returned a promise that was rejected before the call
PinnedCalls == {c \in DOMAIN naver.calls : naver.calls[c].state = "rejected"}

\* C30: the cached promise never pins a failure: no call of
\* loadNaverMapsScript returns a promise that had already been rejected
\* (by the script's error event or by the ten-second timeout) when the
\* call was made.
C30_FailureNotPinned == PinnedCalls = {}

\* the part that holds: after the error event of the script this module
\* created, the cache is empty or holds a later promise
ErrorEventClearsTheCache ==
  naver.owner # 0 /\ naver.script = "failed" =>
    naver.scriptLoadPromise # naver.owner

\* a call made after the error event makes a promise that waits for an
\* element that has failed: it is never fulfilled
AfterErrorEventNoSuccess ==
  \A k \in DOMAIN naver.attempts :
    naver.script = "failed" => naver.attempts[k].promise.state # "fulfilled"

=============================================================================
